---- MODULE Spec2Model ----
(***************************************************************************)
(* A model of the JS-object signing utilities (sign-verify-js-objs.ts),    *)
(* the credential serialisation and signing path, the composite-proof      *)
(* wrapper, the accumulator state and the request of a blind signature of  *)
(* crypto-wasm-ts.                                                         *)
(*                                                                         *)
(* Strings are sequences of UTF-16 code units, so that the default         *)
(* Array.prototype.sort order (code-unit order, where "-" < "." < letters) *)
(* and the dot-joining and dot-splitting of the flat library are computed  *)
(* and not assumed.  A JS object and a JS Map are sequences of entries     *)
(* [k, v] in insertion order; a JS Set is a sequence without repetition.   *)
(***************************************************************************)
EXTENDS Integers, Sequences, FiniteSets, TLC

VARIABLES
    messages,           \* prover: the messages object
    revealedMsgNames,   \* prover: Set<string> of names to reveal
    rau,                \* outcome of getRevealedAndUnrevealed
    msgStructure,       \* verifier: the message structure
    erm,                \* outcome of encodeRevealedMsgs
    otherStructure,     \* a second message structure (another statement's)
    idx,                \* outcome of getIndicesForMsgNames on msgStructure
    idxOther,           \* outcome of getIndicesForMsgNames on otherStructure
    eqm,                \* outcome of createWitnessEqualityMetaStatement
    _schema,            \* CredentialBuilder._schema
    _subject,           \* CredentialBuilder._subject
    _credStatus,        \* CredentialBuilder._credStatus
    _encodedAttributes, \* CredentialBuilder._encodedAttributes
    _topLevelFields,    \* the Map of the builder, which sign hands to the Credential
    _sig,               \* CredentialBuilder._sig
    credential,         \* the Credential returned by the last successful sign
    signed,             \* outcome of the last CredentialBuilder.sign
    serialized,         \* outcome of the last Credential.serializeForSigning
    proof,              \* outcome of CompositeProof.generate
    verified,           \* outcome of the last CompositeProof.verify
    accumulatorState,   \* state.state: the members held by the accumulator's state
    accumulatorOp,      \* outcome of the last call on the accumulator
    valid,              \* outcome of isValidMsgStructure
    hiddenMsgs,         \* holder: Map of message index to hidden encoded message
    blinding,           \* holder: the blinding of the request's commitment
    blindings,          \* holder: Map of message index to blinding (PS)
    request,            \* the blind signature request
    firstCall,          \* the first call made, with the inputs before it
    lastCall,           \* the latest call made
    Scheme,             \* the signature scheme of the run: BBS, BBS+ or PS
    pc,                 \* how far the blind signature run has come
    hiddenAttrNames,    \* holder: Set<string> of the names hidden from the signer
    knownAttributes,    \* signer: the attributes it is shown
    received,           \* signer: the request as it arrived
    blindSignature,     \* outcome of BlindSignature.blindSignMessageObject
    revealedSig,        \* holder: the unblinded signature
    sigCheck            \* outcome of revealedSig.verifyMessageObject

msgVars == <<messages, revealedMsgNames, rau, msgStructure, erm>>
idxVars == <<otherStructure, idx, idxOther, eqm>>
proverVars == <<messages, revealedMsgNames, rau>>
builderVars ==
    <<_schema, _subject, _credStatus, _encodedAttributes, _topLevelFields, _sig>>
credVars == <<builderVars, credential, signed, serialized>>
proofVars == <<proof, verified>>
accVars == <<accumulatorState, accumulatorOp>>
holderVars == <<hiddenMsgs, blinding, blindings, request>>
callVars == <<firstCall, lastCall>>
blindVars ==
    <<Scheme, pc, hiddenAttrNames, knownAttributes, received, blindSignature,
      revealedSig, sigCheck>>
sigVars == <<valid, holderVars, callVars, blindVars>>
vars == <<msgVars, idxVars, credVars, proofVars, accVars, sigVars>>

(***************************************************************************)
(* Strings                                                                 *)
(***************************************************************************)
\* "." : the delimiter of nested property names
DOT == 46
\* "-"
HYPHEN == 45

RECURSIVE StrLess(_, _)
\* s < t in code-unit order, the order of Array.prototype.sort() without a comparator
StrLess(s, t) ==
    IF t = <<>> THEN FALSE
    ELSE IF s = <<>> THEN TRUE
    ELSE IF Head(s) # Head(t) THEN Head(s) < Head(t)
    ELSE StrLess(Tail(s), Tail(t))

RECURSIVE InsertSorted(_, _)
InsertSorted(x, sorted) ==
    IF sorted = <<>> THEN <<x>>
    ELSE IF StrLess(x, Head(sorted)) THEN <<x>> \o sorted
    ELSE <<Head(sorted)>> \o InsertSorted(x, Tail(sorted))

RECURSIVE SortFrom(_, _, _)
SortFrom(arr, i, acc) ==
    IF i > Len(arr) THEN acc ELSE SortFrom(arr, i + 1, InsertSorted(arr[i], acc))

\* a mutant: the names are left in insertion order
SortOmitted(arr) == arr

\* arr.sort()
Sort(arr) == SortFrom(arr, 1, <<>>)

RECURSIVE IndexFrom(_, _, _)
IndexFrom(arr, x, i) ==
    IF i > Len(arr) THEN -1
    ELSE IF arr[i] = x THEN i - 1
    ELSE IndexFrom(arr, x, i + 1)

\* arr.indexOf(x): the 0-based position of the first x, -1 when absent
indexOf(arr, x) == IndexFrom(arr, x, 1)

Range(seq) == {seq[i] : i \in 1..Len(seq)}

(***************************************************************************)
(* JS values, objects and Maps                                             *)
(***************************************************************************)
Leaf(x) == [tag |-> "leaf", val |-> x, kids |-> <<>>]
\* a nested object with its entries in insertion order
Node(entries) == [tag |-> "node", val |-> "", kids |-> entries]
Undefined == [tag |-> "undefined", val |-> "", kids |-> <<>>]
\* the null leaf of a MessageStructure
Null == Leaf("null")

Entry(key, value) == [k |-> key, v |-> value]

\* Object.keys(obj), Map.keys()
Keys(obj) == [i \in 1..Len(obj) |-> obj[i].k]

\* obj[key], map.get(key)
Get(obj, key) ==
    IF \E i \in 1..Len(obj) : obj[i].k = key
    THEN obj[CHOOSE i \in 1..Len(obj) : obj[i].k = key].v
    ELSE Undefined

\* obj[key] = value, map.set(key, value): an existing key keeps its position
Put(obj, key, value) ==
    IF \E i \in 1..Len(obj) : obj[i].k = key
    THEN [i \in 1..Len(obj) |-> IF obj[i].k = key THEN Entry(key, value) ELSE obj[i]]
    ELSE Append(obj, Entry(key, value))

\* the content of a Map or flattened object, without its insertion order
Content(obj) == {<<obj[i].k, obj[i].v>> : i \in 1..Len(obj)}

(***************************************************************************)
(* flat: flatten and unflatten                                             *)
(***************************************************************************)
RECURSIVE FlattenStep(_, _, _, _)
\* step(object, prev) of flatten: a non-empty nested object is descended into,
\* anything else (an empty object too) is a leaf stored under the joined key
FlattenStep(object, i, prev, output) ==
    IF i > Len(object) THEN output
    ELSE LET e == object[i]
             newKey == IF prev # <<>> THEN prev \o <<DOT>> \o e.k ELSE e.k
             out1 == IF e.v.tag = "node" /\ Len(e.v.kids) > 0
                     THEN FlattenStep(e.v.kids, 1, newKey, output)
                     ELSE Put(output, newKey, e.v)
         IN  FlattenStep(object, i + 1, prev, out1)

flatten(target) == FlattenStep(target, 1, <<>>, <<>>)

RECURSIVE SplitFrom(_, _, _, _)
SplitFrom(key, i, cur, acc) ==
    IF i > Len(key) THEN Append(acc, cur)
    ELSE IF key[i] = DOT THEN SplitFrom(key, i + 1, <<>>, Append(acc, cur))
    ELSE SplitFrom(key, i + 1, Append(cur, key[i]), acc)

\* key.split(".")
Split(key) == SplitFrom(key, 1, <<>>, <<>>)

RECURSIVE SetPath(_, _, _)
\* the walk of unflatten for one key: a missing step becomes {}, a step that is
\* a non-object value abandons the key, the last step is assigned
SetPath(recipient, comps, value) ==
    IF Len(comps) = 1 THEN Put(recipient, comps[1], value)
    ELSE LET cur == Get(recipient, comps[1])
         IN  IF cur.tag = "leaf" THEN recipient
             ELSE Put(recipient, comps[1],
                      Node(SetPath(cur.kids, Tail(comps), value)))

RECURSIVE UnflattenFrom(_, _, _)
UnflattenFrom(target, i, result) ==
    IF i > Len(target) THEN result
    ELSE UnflattenFrom(target, i + 1,
                       SetPath(result, Split(target[i].k), target[i].v))

\* unflatten(target) for a target whose values are leaves
unflatten(target) == UnflattenFrom(target, 1, <<>>)

flattenMessageStructure(struct) == flatten(struct)

(***************************************************************************)
(* Encoder                                                                 *)
(***************************************************************************)
\* encoder.encodeMessage(name, value): the field element derived from the value
\* by the transform registered for the name
encodeMessage(name, value) == <<name, value>>

\* encoder.encodeMessageObject(messages): [names, encodedValues], the names being
\* the sorted flattened names
encodeMessageObject(msgs) ==
    LET flattened == flatten(msgs)
        names == Sort(Keys(flattened))
    IN  [names |-> names,
         encodedValues |-> [i \in 1..Len(names) |->
                               encodeMessage(names[i], Get(flattened, names[i]))]]

(***************************************************************************)
(* sign-verify-js-objs.ts                                                  *)
(***************************************************************************)
NoMap == <<>>

RECURSIVE RauLoop(_, _, _, _, _)
\* the loop over names: acc = [revealedMsgs, unrevealedMsgs, found]
RauLoop(names, encodedValues, revealedNames, i, acc) ==
    IF i >= Len(names) THEN acc
    ELSE RauLoop(names, encodedValues, revealedNames, i + 1,
                 IF names[i + 1] \in Range(revealedNames)
                 THEN [acc EXCEPT !.revealedMsgs = Put(@, i, encodedValues[i + 1]),
                                  !.found = @ + 1]
                 ELSE [acc EXCEPT !.unrevealedMsgs = Put(@, i, encodedValues[i + 1])])

RECURSIVE RawFrom(_, _, _, _)
\* revealedMsgNames.forEach((n) => (revealedMsgsRaw[n] = flattened[n]))
RawFrom(revealedNames, flattened, i, revealedMsgsRaw) ==
    IF i > Len(revealedNames) THEN revealedMsgsRaw
    ELSE RawFrom(revealedNames, flattened, i + 1,
                 Put(revealedMsgsRaw, revealedNames[i], Get(flattened, revealedNames[i])))

\* a mutant: the size check is dropped, unknown names are silently ignored
getRevealedAndUnrevealedUnchecked(msgs, revealedNames) ==
    LET enc == encodeMessageObject(msgs)
        acc == RauLoop(enc.names, enc.encodedValues, revealedNames, 0,
                       [revealedMsgs |-> NoMap, unrevealedMsgs |-> NoMap, found |-> 0])
    IN  [threw |-> FALSE, extra |-> 0,
         revealedMsgs |-> acc.revealedMsgs, unrevealedMsgs |-> acc.unrevealedMsgs,
         revealedMsgsRaw |-> unflatten(RawFrom(revealedNames, flatten(msgs), 1, <<>>))]

\* a mutant: the revealed messages are keyed by their position among the revealed
getRevealedAndUnrevealedRekeyed(msgs, revealedNames) ==
    LET r == getRevealedAndUnrevealedUnchecked(msgs, revealedNames)
    IN  [r EXCEPT !.revealedMsgs =
            [i \in 1..Len(r.revealedMsgs) |-> Entry(i - 1, r.revealedMsgs[i].v)]]

\* getRevealedAndUnrevealed(messages, revealedMsgNames, encoder)
getRevealedAndUnrevealed(msgs, revealedNames) ==
    LET enc == encodeMessageObject(msgs)
        acc == RauLoop(enc.names, enc.encodedValues, revealedNames, 0,
                       [revealedMsgs |-> NoMap, unrevealedMsgs |-> NoMap, found |-> 0])
    IN  IF Len(revealedNames) # acc.found
        THEN [threw |-> TRUE, extra |-> Len(revealedNames) - acc.found,
              revealedMsgs |-> NoMap, unrevealedMsgs |-> NoMap, revealedMsgsRaw |-> <<>>]
        ELSE [threw |-> FALSE, extra |-> 0,
              revealedMsgs |-> acc.revealedMsgs, unrevealedMsgs |-> acc.unrevealedMsgs,
              revealedMsgsRaw |-> unflatten(RawFrom(revealedNames, flatten(msgs), 1, <<>>))]

RECURSIVE ErmLoop(_, _, _, _)
\* Object.entries(flattenedRevealed).forEach: the first unknown name throws
ErmLoop(entries, names, i, revealed) ==
    IF i > Len(entries) THEN [threw |-> FALSE, revealed |-> revealed]
    ELSE LET j == indexOf(names, entries[i].k)
         IN  IF j = -1 THEN [threw |-> TRUE, revealed |-> NoMap]
             ELSE ErmLoop(entries, names, i + 1,
                          Put(revealed, j, encodeMessage(entries[i].k, entries[i].v)))

\* a mutant: the index is taken in the insertion order of the structure
encodeRevealedMsgsUnsorted(revealedMsgsRaw, struct) ==
    ErmLoop(flatten(revealedMsgsRaw), Keys(flattenMessageStructure(struct)), 1, NoMap)

\* encodeRevealedMsgs(revealedMsgsRaw, msgStructure, encoder)
encodeRevealedMsgs(revealedMsgsRaw, struct) ==
    ErmLoop(flatten(revealedMsgsRaw), Sort(Keys(flattenMessageStructure(struct))), 1, NoMap)

RECURSIVE IndicesFrom(_, _, _, _)
\* msgNames.map(...): the first name that is not found throws
IndicesFrom(msgNames, allNames, i, acc) ==
    IF i > Len(msgNames) THEN [threw |-> FALSE, indices |-> acc]
    ELSE LET j == indexOf(allNames, msgNames[i])
         IN  IF j = -1 THEN [threw |-> TRUE, indices |-> <<>>]
             ELSE IndicesFrom(msgNames, allNames, i + 1, Append(acc, j))

\* a mutant: the index is taken in the insertion order of the structure
getIndicesForMsgNamesUnsorted(msgNames, struct) ==
    IndicesFrom(msgNames, Keys(flattenMessageStructure(struct)), 1, <<>>)

\* a mutant: the indices come back in the sorted order of the names
getIndicesForMsgNamesSorted(msgNames, struct) ==
    IndicesFrom(Sort(msgNames), Sort(Keys(flattenMessageStructure(struct))), 1, <<>>)

\* getIndicesForMsgNames(msgNames, msgStructure)
getIndicesForMsgNames(msgNames, struct) ==
    IndicesFrom(msgNames, Sort(Keys(flattenMessageStructure(struct))), 1, <<>>)

\* arr[i] of a JS array, from 0: undefined past the end (no name has a negative unit)
At(arr, i) == IF i < Len(arr) THEN arr[i + 1] ELSE <<-1>>

RECURSIVE NamesLoop(_, _, _)
\* for (let i = 0; i <= namesInMsgs.length; i++): the last round compares
\* namesInStruct[length] with namesInMsgs[length]
NamesLoop(namesInStruct, namesInMsgs, i) ==
    IF i > Len(namesInMsgs) THEN TRUE
    ELSE IF At(namesInStruct, i) # At(namesInMsgs, i) THEN FALSE
    ELSE NamesLoop(namesInStruct, namesInMsgs, i + 1)

\* a mutant: only the number of names is compared
isValidMsgStructureByCount(msgs, struct) ==
    Len(Keys(flatten(msgs))) = Len(Keys(flattenMessageStructure(struct)))

\* isValidMsgStructure(messages, msgStructure)
isValidMsgStructure(msgs, struct) ==
    LET namesInStruct == Sort(Keys(flattenMessageStructure(struct)))
        namesInMsgs == Sort(Keys(flatten(msgs)))
    IN  /\ Len(namesInMsgs) = Len(namesInStruct)
        /\ NamesLoop(namesInStruct, namesInMsgs, 0)

\* new WitnessEqualityMetaStatement(): no witness reference yet
NewWitnessEqualityMetaStatement == {}

\* ms.addWitnessRef(statementIndex, witnessIndex)
addWitnessRef(ms, sIdx, i) == ms \cup {<<sIdx, i>>}

RECURSIVE AddRefs(_, _, _, _)
\* indices.forEach((i) => ms.addWitnessRef(sIdx, i))
AddRefs(ms, sIdx, indices, i) ==
    IF i > Len(indices) THEN ms
    ELSE AddRefs(addWitnessRef(ms, sIdx, indices[i]), sIdx, indices, i + 1)

RECURSIVE EqLoop(_, _, _)
\* for (const [sIdx, [names, struct]] of equality.entries())
EqLoop(equality, i, ms) ==
    IF i > Len(equality) THEN [threw |-> FALSE, ms |-> ms]
    ELSE LET r == getIndicesForMsgNames(equality[i].v.names, equality[i].v.struct)
         IN  IF r.threw THEN [threw |-> TRUE, ms |-> {}]
             ELSE EqLoop(equality, i + 1, AddRefs(ms, equality[i].k, r.indices, 1))

RECURSIVE EqLoopFirstStruct(_, _, _)
EqLoopFirstStruct(equality, i, ms) ==
    IF i > Len(equality) THEN [threw |-> FALSE, ms |-> ms]
    ELSE LET r == getIndicesForMsgNames(equality[i].v.names, equality[1].v.struct)
         IN  IF r.threw THEN [threw |-> TRUE, ms |-> {}]
             ELSE EqLoopFirstStruct(equality, i + 1, AddRefs(ms, equality[i].k, r.indices, 1))

\* a mutant: every entry's names are resolved in the first entry's structure
createWitnessEqualityMetaStatementFirstStruct(equality) ==
    EqLoopFirstStruct(equality, 1, NewWitnessEqualityMetaStatement)

\* createWitnessEqualityMetaStatement(equality)
createWitnessEqualityMetaStatement(equality) ==
    EqLoop(equality, 1, NewWitnessEqualityMetaStatement)

(***************************************************************************)
(* Statements and witnesses of a blind-signature request                   *)
(***************************************************************************)
RECURSIVE InsertByKey(_, _)
\* one entry put in its place by the comparator ([a], [b]) => a - b
InsertByKey(e, sorted) ==
    IF sorted = <<>> THEN <<e>>
    ELSE IF e.k < Head(sorted).k THEN <<e>> \o sorted
    ELSE <<Head(sorted)>> \o InsertByKey(e, Tail(sorted))

RECURSIVE SortByKeyFrom(_, _, _)
SortByKeyFrom(entries, i, acc) ==
    IF i > Len(entries) THEN acc
    ELSE SortByKeyFrom(entries, i + 1, InsertByKey(entries[i], acc))

\* [...map.entries()].sort(([a], [b]) => a - b): the sorted array is a copy
SortByKey(entries) == SortByKeyFrom(entries, 1, <<>>)

\* entries.map(([_, m]) => m)
Values(entries) == [i \in 1..Len(entries) |-> entries[i].v]

\* map.has(key), and map.get(key) of a key the map has
Has(map, key) == \E i \in 1..Len(map) : map[i].k = key
GetValue(map, key) == map[CHOOSE i \in 1..Len(map) : map[i].k = key].v

\* the generators of the signature params: g, the extra G1 element h of PS, the
\* generator of the BBS+ blinding, and one generator for each message index
Generator(name, i) == [name |-> name, i |-> i]

\* an ideal Pedersen commitment: binding to its bases and to its openings
Commit(bases, openings) == [bases |-> bases, openings |-> openings]

\* sigParams.getParamsForIndices(indices): the generators of the indices, for
\* BBS+ after the generator of the blinding
getParamsForIndices(sigParams, indices) ==
    LET hs == [i \in 1..Len(indices) |-> Generator("h", indices[i])]
    IN  IF sigParams.scheme = "BBS+" THEN <<Generator("h0", 0)>> \o hs ELSE hs

\* Statement.pedersenCommitmentG1(bases, commitment)
pedersenCommitmentG1(bases, commitment) ==
    [relation |-> "pedersen", bases |-> bases, commitment |-> commitment]

\* Witness.pedersenCommitment(elements)
pedersenCommitment(elements) == [relation |-> "pedersen", elements |-> elements]

\* getBBSStatementForBlindSigRequest(request, sigParams)
getBBSStatementForBlindSigRequest(req, sigParams) ==
    LET commKey == getParamsForIndices(sigParams, req.blindedIndices)
    IN  [threw |-> FALSE, ret |-> pedersenCommitmentG1(commKey, req.commitment),
         request |-> req]

\* a mutant: the map itself is sorted, not a copy of its entries
getBBSWitnessForBlindSigRequestInPlace(msgs) ==
    LET sortedMessages == SortByKey(msgs)
    IN  [threw |-> FALSE, ret |-> pedersenCommitment(Values(sortedMessages)),
         messages |-> sortedMessages]

\* getBBSWitnessForBlindSigRequest(messages)
getBBSWitnessForBlindSigRequest(msgs) ==
    LET sortedMessages == SortByKey(msgs)
    IN  [threw |-> FALSE, ret |-> pedersenCommitment(Values(sortedMessages)),
         messages |-> msgs]

\* getBBSPlusStatementForBlindSigRequest(request, sigParams)
getBBSPlusStatementForBlindSigRequest(req, sigParams) ==
    LET commKey == getParamsForIndices(sigParams, req.blindedIndices)
    IN  [threw |-> FALSE, ret |-> pedersenCommitmentG1(commKey, req.commitment),
         request |-> req]

\* a mutant: the messages follow the blinding in the insertion order of the map
getBBSPlusWitnessForBlindSigRequestUnsorted(msgs, r) ==
    [threw |-> FALSE, ret |-> pedersenCommitment(<<r>> \o Values(msgs)),
     messages |-> msgs]

\* getBBSPlusWitnessForBlindSigRequest(messages, blinding)
getBBSPlusWitnessForBlindSigRequest(msgs, r) ==
    LET sortedMessages == SortByKey(msgs)
    IN  [threw |-> FALSE,
         ret |-> pedersenCommitment(<<r>> \o Values(sortedMessages)),
         messages |-> msgs]

\* a mutant: the statements of the commitments follow the insertion order of the map
getPSStatementsForBlindSigRequestUnsorted(req, sigParams, h) ==
    LET sortedCommitments == SortByKey(req.commitments)
        hArr == getParamsForIndices(sigParams, Keys(sortedCommitments))
    IN  [threw |-> FALSE,
         ret |-> <<pedersenCommitmentG1(<<sigParams.value.g>> \o hArr, req.commitment)>>
                     \o [i \in 1..Len(req.commitments) |->
                            pedersenCommitmentG1(<<sigParams.value.g, h>>,
                                                 req.commitments[i].v)],
         request |-> req]

\* getPSStatementsForBlindSigRequest(request, sigParams, h)
getPSStatementsForBlindSigRequest(req, sigParams, h) ==
    LET sortedCommitments == SortByKey(req.commitments)
        hArr == getParamsForIndices(sigParams, Keys(sortedCommitments))
    IN  [threw |-> FALSE,
         ret |-> <<pedersenCommitmentG1(<<sigParams.value.g>> \o hArr, req.commitment)>>
                     \o [i \in 1..Len(sortedCommitments) |->
                            pedersenCommitmentG1(<<sigParams.value.g, h>>,
                                                 sortedCommitments[i].v)],
         request |-> req]

\* getPSWitnessesForBlindSigRequest(messages, blinding, blindings): the first
\* index without a blinding throws
getPSWitnessesForBlindSigRequest(msgs, r, rs) ==
    LET sortedMessages == SortByKey(msgs)
    IN  IF \E i \in 1..Len(sortedMessages) : ~Has(rs, sortedMessages[i].k)
        THEN [threw |-> TRUE, ret |-> <<>>, messages |-> msgs,
              blindings |-> rs]
        ELSE [threw |-> FALSE,
              ret |-> <<pedersenCommitment(<<r>> \o Values(sortedMessages))>>
                          \o [i \in 1..Len(sortedMessages) |->
                                 pedersenCommitment(
                                     <<GetValue(rs, sortedMessages[i].k),
                                       sortedMessages[i].v>>)],
              messages |-> msgs, blindings |-> rs]

(***************************************************************************)
(* Inputs                                                                  *)
(***************************************************************************)
\* the longest revealed-name set and name list that is tried
MaxNames == 2

\* "a", "a-b": the second sorts before "a.a" although "a" < "a-b"
TopKeys == {<<97>>, <<97, HYPHEN, 98>>}
\* "a", "b"
NestedKeys == {<<97>>, <<98>>}
LeafValues == {Leaf("v1"), Leaf("v2")}
\* "b": never a leaf of an object over TopKeys
UnknownName == <<98>>
\* "c"
OtherUnknownName == <<99>>

\* the sequences without repetition over S, of length at most n
DistinctSeqs(S, n) ==
    UNION {{q \in [1..m -> S] : \A i, j \in 1..m : i # j => q[i] # q[j]} : m \in 0..n}

\* the sequences over S of length at most n
SeqsUpTo(S, n) == UNION {[1..m -> S] : m \in 0..n}

\* the objects with distinct keys from keys, in every insertion order
ObjectsOver(keys, values) ==
    UNION {{[i \in 1..Len(ks) |-> Entry(ks[i], f[i])] : f \in [1..Len(ks) -> values]} :
           ks \in DistinctSeqs(keys, Cardinality(keys))}

NestedObjects(values) == {Node(o) : o \in ObjectsOver(NestedKeys, values) \ {<<>>}}

\* the attribute names of the 'Proving knowledge of 1 signature' scenario
ssn == <<115, 115, 110>>
fname == <<102, 110, 97, 109, 101>>
lname == <<108, 110, 97, 109, 101>>
email == <<101, 109, 97, 105, 108>>
city == <<99, 105, 116, 121>>
\* the attributes in the order the scenario lists them
TestAttributes ==
    <<Entry(ssn, Leaf("v1")), Entry(fname, Leaf("v2")), Entry(lname, Leaf("v1")),
      Entry(email, Leaf("v2")), Entry(city, Leaf("v1"))>>
TestStructure == [i \in 1..Len(TestAttributes) |-> Entry(TestAttributes[i].k, Null)]

MessageObjects == ObjectsOver(TopKeys, LeafValues \cup NestedObjects(LeafValues))
Structures == ObjectsOver(TopKeys, {Null} \cup NestedObjects({Null}))

\* the flattened names of an object, as a set
NameSet(obj) == Range(Keys(flatten(obj)))

\* the flattened leaf names of a message structure, as a set
StructNameSet(struct) == Range(Keys(flattenMessageStructure(struct)))

\* the names a caller may ask for: the leaves of the object and one unknown name
Candidates(obj) ==
    NameSet(obj) \cup
        {IF UnknownName \in NameSet(obj) THEN OtherUnknownName ELSE UnknownName}

(***************************************************************************)
(* Prover and verifier: partition, then encode the revealed messages       *)
(***************************************************************************)
NoResult == [state |-> "none"]

InitMsgs ==
    /\ messages \in MessageObjects \cup {TestAttributes}
    /\ revealedMsgNames \in DistinctSeqs(Candidates(messages), MaxNames)
    /\ rau = NoResult
    /\ msgStructure = <<>>
    /\ erm = NoResult

IdleMsgs ==
    /\ messages = <<>>
    /\ revealedMsgNames = <<>>
    /\ rau = NoResult
    /\ erm = NoResult

IdleIdx ==
    /\ otherStructure = <<>>
    /\ idx = NoResult
    /\ idxOther = NoResult
    /\ eqm = NoResult

\* a builder as its constructor leaves it, and no credential issued
NoSchema == [set |-> FALSE, jsonSchema |-> <<>>]
NoSignature == [set |-> FALSE, over |-> <<>>]
NoEncodedAttributes == [set |-> FALSE, encodedMessages |-> <<>>]
NoCredential == [set |-> FALSE]

NewBuilder ==
    /\ _schema = NoSchema
    /\ _subject = Undefined
    /\ _credStatus = Undefined
    /\ _encodedAttributes = NoEncodedAttributes
    /\ _topLevelFields = <<>>
    /\ _sig = NoSignature

IdleCred ==
    /\ NewBuilder
    /\ credential = NoCredential
    /\ signed = NoResult
    /\ serialized = NoResult

IdleProof ==
    /\ proof = NoResult
    /\ verified = NoResult

IdleAcc ==
    /\ accumulatorState = {}
    /\ accumulatorOp = NoResult

\* no blind signature asked for
NoRequest == [set |-> FALSE]

IdleHolder ==
    /\ hiddenMsgs = <<>>
    /\ blinding = 0
    /\ blindings = <<>>
    /\ request = NoRequest

IdleCalls ==
    /\ firstCall = NoResult
    /\ lastCall = NoResult

IdleBlind ==
    /\ Scheme = "BBS"
    /\ pc = "idle"
    /\ hiddenAttrNames = <<>>
    /\ knownAttributes = <<>>
    /\ received = NoRequest
    /\ blindSignature = NoResult
    /\ revealedSig = NoResult
    /\ sigCheck = NoResult

IdleSig ==
    /\ valid = NoResult
    /\ IdleHolder
    /\ IdleCalls
    /\ IdleBlind

\* the prover calls getRevealedAndUnrevealed(messages, revealedMsgNames, encoder)
GetRevealedAndUnrevealed ==
    /\ rau.state = "none"
    /\ LET r == getRevealedAndUnrevealed(messages, revealedMsgNames)
       IN  rau' = [state |-> IF r.threw THEN "threw" ELSE "returned", ret |-> r]
    /\ UNCHANGED <<messages, revealedMsgNames, msgStructure, erm>>

\* the structures a verifier may hold: the agreed one, in any insertion order, or
\* the structure of another credential
VerifierStructures(msgs) ==
    {st \in Structures \cup {TestStructure} : NameSet(st) = NameSet(msgs)}
        \cup {<<Entry(UnknownName, Null)>>}

\* the verifier calls encodeRevealedMsgs(revealedMsgsRaw, msgStructure, encoder) on
\* the raw revealed messages the prover sent
EncodeRevealedMsgs ==
    /\ rau.state = "returned"
    /\ erm.state = "none"
    /\ \E st \in VerifierStructures(messages) :
          /\ msgStructure' = st
          /\ LET r == encodeRevealedMsgs(rau.ret.revealedMsgsRaw, st)
             IN  erm' = [state |-> IF r.threw THEN "threw" ELSE "returned", ret |-> r]
    /\ UNCHANGED <<proverVars, credVars, proofVars, accVars, sigVars>>

NextMsgs ==
    \/ GetRevealedAndUnrevealed /\ UNCHANGED <<idxVars, credVars, proofVars, accVars, sigVars>>
    \/ EncodeRevealedMsgs /\ UNCHANGED <<idxVars, credVars, proofVars, accVars, sigVars>>

Init == InitMsgs /\ IdleIdx /\ IdleCred /\ IdleProof /\ IdleAcc /\ IdleSig

Spec == Init /\ [][NextMsgs]_vars

(***************************************************************************)
(* Claims about the partition and its verifier-side counterpart            *)
(***************************************************************************)
MapKeys(m) == Range(Keys(m))

\* no key is stored twice
IsMap(m) == Cardinality(MapKeys(m)) = Len(m)

\* C1: whenever getRevealedAndUnrevealed returns, the revealed and the unrevealed
\* map have disjoint keys, together they hold exactly i -> encodedValues[i] for
\* every index i of encodeMessageObject(messages), and the revealed keys are
\* exactly the indices whose name is in revealedMsgNames.
C1_Partition ==
    rau.state = "returned" =>
        LET enc == encodeMessageObject(messages)
            rev == rau.ret.revealedMsgs
            unrev == rau.ret.unrevealedMsgs
        IN  /\ IsMap(rev) /\ IsMap(unrev)
            /\ MapKeys(rev) \cap MapKeys(unrev) = {}
            /\ Content(rev) \cup Content(unrev) =
                   {<<i - 1, enc.encodedValues[i]>> : i \in 1..Len(enc.names)}
            /\ MapKeys(rev) =
                   {i - 1 : i \in {j \in 1..Len(enc.names) :
                                      enc.names[j] \in Range(revealedMsgNames)}}

HasDot(name) == DOT \in Range(name)

\* a partition of a nested object with both halves non-empty, a revealed nested
\* name, and a revealed index that is not the position among the revealed
C1_Witness ==
    /\ rau.state = "returned"
    /\ Len(rau.ret.revealedMsgs) >= 1
    /\ Len(rau.ret.unrevealedMsgs) >= 2
    /\ \E n \in Range(revealedMsgNames) : HasDot(n)
    /\ 0 \notin MapKeys(rau.ret.revealedMsgs)

C3_UnknownNames ==
    rau.state # "none" =>
        LET unmatched == Range(revealedMsgNames) \ NameSet(messages)
            matched == Range(revealedMsgNames) \cap NameSet(messages)
        IN  /\ (rau.state = "threw") <=> (unmatched # {})
            /\ rau.state = "threw" =>
                   /\ rau.ret.extra = Cardinality(unmatched)
                   /\ rau.ret.extra = Len(revealedMsgNames) - Cardinality(matched)
                   /\ rau.ret.revealedMsgs = NoMap
                   /\ rau.ret.unrevealedMsgs = NoMap

\* a partial match: two names asked for, one of them unknown
C3_Witness ==
    /\ rau.state = "threw"
    /\ Len(revealedMsgNames) = 2
    /\ rau.ret.extra = 1

Reverse(seq) == [i \in 1..Len(seq) |-> seq[Len(seq) + 1 - i]]

\* the structure of another credential: {b: null, a: null, "a-b": null}
ForeignStructure ==
    <<Entry(UnknownName, Null), Entry(<<97>>, Null), Entry(<<97, HYPHEN, 98>>, Null)>>

\* the second structure: the first with its keys inserted in another order, or
\* the structure of another credential
OtherStructures(struct) ==
    {st \in Structures \cup {TestStructure, Reverse(TestStructure)} :
        NameSet(st) = NameSet(struct)} \cup {ForeignStructure}

\* the two insertion orders of the statement indices of a two-entry equality
StatementIndexPairs == {<<0, 1>>, <<1, 0>>}

InitIdx ==
    /\ msgStructure \in Structures \cup {TestStructure}
    /\ otherStructure \in OtherStructures(msgStructure)
    /\ idx = NoResult
    /\ idxOther = NoResult
    /\ eqm = NoResult

Outcome(r) == IF r.threw THEN "threw" ELSE "returned"

\* getIndicesForMsgNames(msgNames, msgStructure)
GetIndicesForMsgNames ==
    /\ idx.state = "none"
    /\ eqm.state = "none"
    /\ \E msgNames \in SeqsUpTo(Candidates(msgStructure), MaxNames) :
          LET r == getIndicesForMsgNames(msgNames, msgStructure)
          IN  idx' = [state |-> Outcome(r), msgNames |-> msgNames, ret |-> r]
    /\ UNCHANGED <<msgStructure, otherStructure, idxOther, eqm, erm>>

\* getIndicesForMsgNames(msgNames, otherStructure), for the same names
GetIndicesInOtherStructure ==
    /\ idx.state # "none"
    /\ idxOther.state = "none"
    /\ LET r == getIndicesForMsgNames(idx.msgNames, otherStructure)
       IN  idxOther' = [state |-> Outcome(r), msgNames |-> idx.msgNames, ret |-> r]
    /\ UNCHANGED <<msgStructure, otherStructure, idx, eqm, erm>>

\* encodeRevealedMsgs({n: v}, msgStructure, encoder) for one of the names
EncodeRevealedName ==
    /\ idx.state # "none"
    /\ erm.state = "none"
    /\ \E n \in Range(idx.msgNames) :
          LET revealedMsgsRaw == unflatten(<<Entry(n, Leaf("v1"))>>)
              r == encodeRevealedMsgs(revealedMsgsRaw, msgStructure)
          IN  erm' = [state |-> Outcome(r), name |-> n, ret |-> r]
    /\ UNCHANGED <<msgStructure, otherStructure, idx, idxOther, eqm>>

\* createWitnessEqualityMetaStatement(equality) for an equality between a
\* statement over msgStructure and a statement over another credential's structure
CreateWitnessEqualityMetaStatement ==
    /\ idx.state = "none"
    /\ eqm.state = "none"
    /\ NameSet(otherStructure) # NameSet(msgStructure)
    /\ \E sIdx \in StatementIndexPairs,
          names1 \in DistinctSeqs(Candidates(msgStructure), MaxNames),
          names2 \in DistinctSeqs(Candidates(otherStructure), MaxNames) :
          LET equality ==
                  <<Entry(sIdx[1], [names |-> names1, struct |-> msgStructure]),
                    Entry(sIdx[2], [names |-> names2, struct |-> otherStructure])>>
              r == createWitnessEqualityMetaStatement(equality)
          IN  eqm' = [state |-> Outcome(r), equality |-> equality, ret |-> r]
    /\ UNCHANGED <<msgStructure, otherStructure, idx, idxOther, erm>>

NextIdx ==
    \/ GetIndicesForMsgNames /\ UNCHANGED <<proverVars, credVars, proofVars, accVars, sigVars>>
    \/ GetIndicesInOtherStructure /\ UNCHANGED <<proverVars, credVars, proofVars, accVars, sigVars>>
    \/ EncodeRevealedName /\ UNCHANGED <<proverVars, credVars, proofVars, accVars, sigVars>>
    \/ CreateWitnessEqualityMetaStatement /\ UNCHANGED <<proverVars, credVars, proofVars, accVars, sigVars>>

InitIdxOnly == InitIdx /\ IdleMsgs /\ IdleCred /\ IdleProof /\ IdleAcc /\ IdleSig

SpecIdx == InitIdxOnly /\ [][NextIdx]_vars

\* the position of a name in the sorted list of a name set: the number of names
\* of the set that are smaller
CanonicalIndex(n, names) == Cardinality({m \in names : StrLess(m, n)})

\* C4: structures with the same flattened leaf paths, whatever the insertion
\* order of their keys, give every leaf name the same index, the position of the
\* name in the sorted list of flattened paths; encodeRevealedMsgs stores the name
\* under that index.
C4_CanonicalIndex ==
    /\ idx.state = "returned" =>
          \A k \in 1..Len(idx.msgNames) :
              idx.ret.indices[k] = CanonicalIndex(idx.msgNames[k], NameSet(msgStructure))
    /\ (idx.state = "returned" /\ idxOther.state # "none"
           /\ NameSet(otherStructure) = NameSet(msgStructure)) =>
          /\ idxOther.state = "returned"
          /\ idxOther.ret.indices = idx.ret.indices
    /\ erm.state = "returned" =>
          /\ MapKeys(erm.ret.revealed) = {CanonicalIndex(erm.name, NameSet(msgStructure))}
          /\ idx.state = "returned" =>
                \E k \in 1..Len(idx.msgNames) :
                    /\ idx.msgNames[k] = erm.name
                    /\ MapKeys(erm.ret.revealed) = {idx.ret.indices[k]}

\* C15: getIndicesForMsgNames returns as many indices as it was given names, the
\* k-th one the canonical index of the k-th name, in the order of msgNames and
\* with a repeated name giving a repeated index; it throws, returning no index,
\* when a given name is not a flattened leaf name of the structure
C15_IndicesFollowNames ==
    idx.state # "none" =>
        /\ idx.state = "returned" =>
              /\ Len(idx.ret.indices) = Len(idx.msgNames)
              /\ \A k \in 1..Len(idx.msgNames) :
                     /\ idx.msgNames[k] \in StructNameSet(msgStructure)
                     /\ idx.ret.indices[k] =
                            CanonicalIndex(idx.msgNames[k], StructNameSet(msgStructure))
              /\ \A j, k \in 1..Len(idx.msgNames) :
                     idx.msgNames[j] = idx.msgNames[k] =>
                         idx.ret.indices[j] = idx.ret.indices[k]
        /\ (\E k \in 1..Len(idx.msgNames) :
                idx.msgNames[k] \notin StructNameSet(msgStructure)) =>
              /\ idx.state = "threw"
              /\ idx.ret.indices = <<>>

\* two names given against their sorted order, answered in the given order
C15_Witness ==
    /\ idx.state = "returned"
    /\ Len(idx.msgNames) = 2
    /\ StrLess(idx.msgNames[2], idx.msgNames[1])
    /\ idx.ret.indices[1] > idx.ret.indices[2]

\* one name resolved in two structures of the same leaf paths and different
\* insertion orders, neither of them sorted, and encoded by the verifier
C4_Witness ==
    /\ idx.state = "returned" /\ idxOther.state = "returned" /\ erm.state = "returned"
    /\ Len(idx.msgNames) = 1
    /\ idx.ret.indices[1] >= 1
    /\ NameSet(otherStructure) = NameSet(msgStructure)
    /\ Keys(flatten(otherStructure)) # Keys(flatten(msgStructure))
    /\ Keys(flatten(msgStructure)) # Sort(Keys(flatten(msgStructure)))
    /\ Keys(flatten(otherStructure)) # Sort(Keys(flatten(otherStructure)))

\* C5: createWitnessEqualityMetaStatement returns one meta-statement whose
\* witness references are exactly the pairs (sIdx, idx), sIdx a key of the
\* equality map and idx the canonical index, in that entry's own structure, of
\* one of that entry's names; it throws, returning no meta-statement, exactly
\* when some name is absent from its own structure.
C5_EqualityRefs ==
    eqm.state # "none" =>
        LET eq == eqm.equality
            allKnown == \A i \in 1..Len(eq) :
                            Range(eq[i].v.names) \subseteq NameSet(eq[i].v.struct)
        IN  /\ (eqm.state = "returned") <=> allKnown
            /\ eqm.state = "threw" => eqm.ret.ms = {}
            /\ eqm.state = "returned" =>
                   eqm.ret.ms =
                       UNION {{<<eq[i].k, CanonicalIndex(n, NameSet(eq[i].v.struct))>> :
                                  n \in Range(eq[i].v.names)} : i \in 1..Len(eq)}

\* an equality over two different structures, where a name of the second entry
\* has another index in the first entry's structure
C5_Witness ==
    /\ eqm.state = "returned"
    /\ Cardinality(eqm.ret.ms) >= 3
    /\ NameSet(otherStructure) # NameSet(msgStructure)
    /\ eqm.equality[1].k = 1
    /\ \E n \in Range(eqm.equality[2].v.names) :
          /\ n \in NameSet(msgStructure)
          /\ CanonicalIndex(n, NameSet(msgStructure)) # CanonicalIndex(n, NameSet(otherStructure))

\* an equality with an unknown name throws
C5_WitnessThrow ==
    /\ eqm.state = "threw"
    /\ Range(eqm.equality[1].v.names) \subseteq NameSet(msgStructure)

(***************************************************************************)
(* Credentials: the builder, sign and the two serializeForSigning          *)
(***************************************************************************)
\* the string constants of types-and-consts
CRYPTO_VERSION_STR == <<99, 114, 121, 112, 116, 111, 86, 101, 114, 115, 105, 111, 110>>
SCHEMA_STR == <<99, 114, 101, 100, 101, 110, 116, 105, 97, 108, 83, 99, 104, 101, 109, 97>>
SUBJECT_STR == <<99, 114, 101, 100, 101, 110, 116, 105, 97, 108, 83, 117, 98, 106, 101, 99, 116>>
STATUS_STR == <<99, 114, 101, 100, 101, 110, 116, 105, 97, 108, 83, 116, 97, 116, 117, 115>>
PROOF_STR == <<112, 114, 111, 111, 102>>
TYPE_STR == <<116, 121, 112, 101>>
ID_STR == <<105, 100>>
REV_CHECK_STR == <<114, 101, 118, 111, 99, 97, 116, 105, 111, 110, 67, 104, 101, 99, 107>>
REV_ID_STR == <<114, 101, 118, 111, 99, 97, 116, 105, 111, 110, 73, 100>>
proofValue == <<112, 114, 111, 111, 102, 86, 97, 108, 117, 101>>
STATUS_TYPE_STR == "DockVBAccumulator2022"
MEM_CHECK_STR == "membership"
NON_MEM_CHECK_STR == "non-membership"
BBS_CRED_PROOF_TYPE == "Bls12381BBSSignatureDock2023"
\* CredentialBuilder.VERSION
VERSION == "0.0.1"

\* the character of a code unit
Chr(c) ==
    CASE c = 97 -> "a" [] c = 98 -> "b" [] c = 99 -> "c" [] c = 100 -> "d"
      [] c = 101 -> "e" [] c = 102 -> "f" [] c = 103 -> "g" [] c = 104 -> "h"
      [] c = 105 -> "i" [] c = 106 -> "j" [] c = 107 -> "k" [] c = 108 -> "l"
      [] c = 109 -> "m" [] c = 110 -> "n" [] c = 111 -> "o" [] c = 112 -> "p"
      [] c = 113 -> "q" [] c = 114 -> "r" [] c = 115 -> "s" [] c = 116 -> "t"
      [] c = 117 -> "u" [] c = 118 -> "v" [] c = 119 -> "w" [] c = 120 -> "x"
      [] c = 121 -> "y" [] c = 122 -> "z" [] c = 67 -> "C" [] c = 73 -> "I"
      [] c = 83 -> "S" [] c = 86 -> "V" [] c = 45 -> "-" [] c = 46 -> "."
      [] OTHER -> "?"

RECURSIVE TextFrom(_, _)
TextFrom(key, i) == IF i > Len(key) THEN "" ELSE Chr(key[i]) \o TextFrom(key, i + 1)

RECURSIVE StringifyMembers(_, _)
RECURSIVE StringifyValue(_)
\* the members of an object, comma-separated; a member that is undefined is left out
StringifyMembers(entries, i) ==
    IF i > Len(entries) THEN ""
    ELSE LET rest == StringifyMembers(entries, i + 1)
             e == entries[i]
         IN  IF e.v.tag = "undefined" THEN rest
             ELSE "\"" \o TextFrom(e.k, 1) \o "\":" \o StringifyValue(e.v)
                      \o (IF rest = "" THEN "" ELSE "," \o rest)

StringifyValue(value) ==
    IF value.tag = "node" THEN "{" \o StringifyMembers(value.kids, 1) \o "}"
    ELSE IF value = Null THEN "null"
    ELSE "\"" \o value.val \o "\""

\* JSON.stringify(value): undefined for undefined, the JSON text otherwise
JSONStringify(value) ==
    IF value.tag = "undefined" THEN Undefined ELSE Leaf(StringifyValue(value))

\* a CredentialSchema over a JSON schema: the structure of the signed object
CredentialSchema(jsonSchema) == [set |-> TRUE, jsonSchema |-> jsonSchema]

\* schema.toJSON()
toJSON(schema) == Node(schema.jsonSchema)

\* schema.toJsonString()
toJsonString(schema) == JSONStringify(toJSON(schema))

\* schema.flatten()[0]: the sorted flattened names the schema declares
SchemaFlattenNames(schema) == Sort(Keys(flatten(schema.jsonSchema)))

areArraysEqual(a, b) == a = b

\* signMessageObject(messages, secretKey, labelOrParams, encoder): the encoded
\* messages by name and the signature over the encoded message vector
signMessageObject(msgs) ==
    LET enc == encodeMessageObject(msgs)
    IN  [encodedMessages |->
             [i \in 1..Len(enc.names) |-> Entry(enc.names[i], enc.encodedValues[i])],
         signature |-> [set |-> TRUE, over |-> enc.encodedValues]]

RECURSIVE PutAll(_, _, _)
\* for (const [k, v] of fields.entries()) s[k] = v
PutAll(s, fields, i) ==
    IF i > Len(fields) THEN s
    ELSE PutAll(Put(s, fields[i].k, fields[i].v), fields, i + 1)

\* delete obj[key]
Delete(obj, key) == SelectSeq(obj, LAMBDA e : e.k # key)

\* !value for the values of the model
Falsy(value) == value.tag = "undefined" \/ value = Null

\* CredentialBuilder.serializeForSigning() on the builder b
CredentialBuilder_serializeForSigning(b) ==
    LET s0 == <<Entry(CRYPTO_VERSION_STR, b.version),
                Entry(SCHEMA_STR,
                      IF b.schema.set THEN JSONStringify(toJSON(b.schema))
                      ELSE JSONStringify(Undefined)),
                Entry(SUBJECT_STR, b.subject)>>
        s1 == PutAll(s0, b.topLevelFields, 1)
    IN  IF b.credStatus # Undefined THEN Put(s1, STATUS_STR, b.credStatus) ELSE s1

\* CredentialBuilder.hasAllFieldsFromSchema(serializedCred, schema)
hasAllFieldsFromSchema(serializedCred, schema) ==
    areArraysEqual(SchemaFlattenNames(schema), Sort(Keys(flatten(serializedCred))))

SignThrew(b) ==
    [threw |-> TRUE, called |-> FALSE, encodedAttributes |-> b.encodedAttributes,
     sig |-> b.sig, credential |-> NoCredential]

SignReturned(b, cred) ==
    LET signedMsgs == signMessageObject(cred)
    IN  [threw |-> FALSE, called |-> TRUE,
         encodedAttributes |->
             [set |-> TRUE, encodedMessages |-> signedMsgs.encodedMessages],
         sig |-> signedMsgs.signature,
         credential |->
             [set |-> TRUE, version |-> b.version, schema |-> b.schema,
              subject |-> b.subject, signature |-> signedMsgs.signature,
              credentialStatus |-> b.credStatus]]

\* sign without the comparison against the schema
signUnchecked(b) ==
    SignReturned(b, CredentialBuilder_serializeForSigning(b))

\* CredentialBuilder.sign(secretKey, signatureParams) on the builder b: what it
\* leaves in _encodedAttributes and _sig, whether signMessageObject was called,
\* and the Credential it returns (which holds the builder's own Map)
sign(b) ==
    LET cred == CredentialBuilder_serializeForSigning(b)
    IN  IF ~b.schema.set THEN SignThrew(b)
        ELSE IF ~hasAllFieldsFromSchema(cred, b.schema) THEN SignThrew(b)
        ELSE SignReturned(b, cred)

\* BBSCredential.applyDefaultProofMetadataIfNeeded(s)
applyDefaultProofMetadataIfNeeded(s) ==
    IF Falsy(Get(s, PROOF_STR))
    THEN Put(s, PROOF_STR, Node(<<Entry(TYPE_STR, Leaf(BBS_CRED_PROOF_TYPE))>>))
    ELSE s

\* Credential.serializeForSigning() on the credential c holding the Map fields:
\* the object returned, and the Map afterwards (the proof object of the Map is
\* the object the delete acts on)
Credential_serializeForSigning(c, fields) ==
    LET s0 == <<Entry(CRYPTO_VERSION_STR, c.version),
                Entry(SCHEMA_STR,
                      IF c.schema.set THEN toJsonString(c.schema) ELSE Undefined),
                Entry(SUBJECT_STR, c.subject)>>
        s1 == PutAll(s0, fields, 1)
        s2 == IF c.credentialStatus # Undefined
              THEN Put(s1, STATUS_STR, c.credentialStatus) ELSE s1
        s3 == applyDefaultProofMetadataIfNeeded(s2)
        p == Get(s3, PROOF_STR)
        stripped == IF p.tag = "node" THEN Node(Delete(p.kids, proofValue)) ELSE p
    IN  [s |-> Put(s3, PROOF_STR, stripped),
         topLevelFields |->
             IF ~Falsy(Get(fields, PROOF_STR))
             THEN Put(fields, PROOF_STR, stripped) ELSE fields]

\* the leaves every schema declares, the subject's leaves, and further fields
SchemaOver(subjectNames, further) ==
    CredentialSchema(
        <<Entry(CRYPTO_VERSION_STR, Null), Entry(SCHEMA_STR, Null),
          Entry(SUBJECT_STR,
                Node([i \in 1..Len(subjectNames) |-> Entry(subjectNames[i], Null)]))>>
            \o further)

issuer == <<105, 115, 115, 117, 101, 114>>

StatusStructure ==
    Node(<<Entry(TYPE_STR, Null), Entry(ID_STR, Null),
           Entry(REV_CHECK_STR, Null), Entry(REV_ID_STR, Null)>>)

Schemas ==
    {SchemaOver(<<fname>>, <<>>),
     SchemaOver(<<fname>>, <<Entry(STATUS_STR, StatusStructure)>>),
     SchemaOver(<<fname>>, <<Entry(issuer, Null)>>),
     SchemaOver(<<fname>>, <<Entry(PROOF_STR, Node(<<Entry(TYPE_STR, Null)>>))>>)}

Subjects == {Node(<<Entry(fname, Leaf("v1"))>>)}

RevocationChecks == {MEM_CHECK_STR, NON_MEM_CHECK_STR, "other"}

\* the proof metadata a caller may store as a top-level field
ProofMetadata == Node(<<Entry(TYPE_STR, Leaf(BBS_CRED_PROOF_TYPE))>>)
ProofMetadataWithValue ==
    Node(<<Entry(TYPE_STR, Leaf(BBS_CRED_PROOF_TYPE)), Entry(proofValue, Leaf("pv"))>>)

TopLevelNames == {issuer, PROOF_STR, SCHEMA_STR, STATUS_STR}
TopLevelValues == {Leaf("v1"), ProofMetadata, ProofMetadataWithValue}
MaxTopLevelFields == 1

\* the builder as the record the operators take
Builder ==
    [version |-> Leaf(VERSION), schema |-> _schema, subject |-> _subject,
     credStatus |-> _credStatus, topLevelFields |-> _topLevelFields,
     sig |-> _sig, encodedAttributes |-> _encodedAttributes]

\* set schema(schema)
SetSchema ==
    /\ \E schema \in Schemas : _schema' = schema
    /\ signed' = NoResult
    /\ serialized' = NoResult
    /\ UNCHANGED <<_subject, _credStatus, _encodedAttributes, _topLevelFields, _sig,
                   credential>>

\* set subject(subject)
SetSubject ==
    /\ \E subject \in Subjects : _subject' = subject
    /\ signed' = NoResult
    /\ serialized' = NoResult
    /\ UNCHANGED <<_schema, _credStatus, _encodedAttributes, _topLevelFields, _sig,
                   credential>>

\* setCredentialStatus(registryId, revCheck, memberValue)
SetCredentialStatus ==
    \E revCheck \in RevocationChecks :
        IF revCheck # MEM_CHECK_STR /\ revCheck # NON_MEM_CHECK_STR
        THEN UNCHANGED vars
        ELSE /\ _credStatus' =
                    Node(<<Entry(TYPE_STR, Leaf(STATUS_TYPE_STR)),
                           Entry(ID_STR, Leaf("registry1")),
                           Entry(REV_CHECK_STR, Leaf(revCheck)),
                           Entry(REV_ID_STR, Leaf("member1"))>>)
             /\ signed' = NoResult
             /\ serialized' = NoResult
             /\ UNCHANGED <<_schema, _subject, _encodedAttributes, _topLevelFields,
                            _sig, credential>>

\* setTopLevelField(name, value)
SetTopLevelField ==
    /\ \E name \in TopLevelNames, value \in TopLevelValues :
          /\ name \in Range(Keys(_topLevelFields))
                \/ Len(_topLevelFields) < MaxTopLevelFields
          /\ _topLevelFields' = Put(_topLevelFields, name, value)
    /\ signed' = NoResult
    /\ serialized' = NoResult
    /\ UNCHANGED <<_schema, _subject, _credStatus, _encodedAttributes, _sig, credential>>

\* sign(secretKey, signatureParams)
Sign ==
    /\ LET r == sign(Builder)
       IN  /\ _encodedAttributes' = r.encodedAttributes
           /\ _sig' = r.sig
           /\ credential' = IF r.threw THEN credential ELSE r.credential
           /\ signed' =
                  [state |-> Outcome(r), called |-> r.called,
                   cred |-> CredentialBuilder_serializeForSigning(Builder),
                   schema |-> _schema, sigBefore |-> _sig,
                   encodedAttributesBefore |-> _encodedAttributes]
    /\ serialized' = NoResult
    /\ UNCHANGED <<_schema, _subject, _credStatus, _topLevelFields>>

\* credential.serializeForSigning() on the credential sign returned
SerializeForSigning ==
    /\ credential.set
    /\ LET r == Credential_serializeForSigning(credential, _topLevelFields)
       IN  /\ _topLevelFields' = r.topLevelFields
           /\ serialized' =
                  [state |-> "returned", ret |-> r.s, fieldsBefore |-> _topLevelFields]
    /\ UNCHANGED <<_schema, _subject, _credStatus, _encodedAttributes, _sig,
                   credential, signed>>

othersCred == <<msgVars, idxVars, proofVars, accVars, sigVars>>

NextCred ==
    \/ SetSchema /\ UNCHANGED othersCred
    \/ SetSubject /\ UNCHANGED othersCred
    \/ SetCredentialStatus /\ UNCHANGED othersCred
    \/ SetTopLevelField /\ UNCHANGED othersCred
    \/ Sign /\ UNCHANGED othersCred
    \/ SerializeForSigning /\ UNCHANGED othersCred

IdleStructures == msgStructure = <<>>

InitCred == IdleCred /\ IdleMsgs /\ IdleStructures /\ IdleIdx /\ IdleProof /\ IdleAcc /\ IdleSig

SpecCred == InitCred /\ [][NextCred]_vars

\* C6: CredentialBuilder.sign fails when the flattened field names of
\* serializeForSigning() omit a leaf the schema declares or contain a leaf it
\* does not declare; it fails before signMessageObject is invoked, and leaves the
\* builder's signature and encoded attributes as they were.
C6_SchemaEnforcement ==
    signed.state # "none" =>
        LET present == Range(Keys(flatten(signed.cred)))
            declared == Range(Keys(flatten(signed.schema.jsonSchema)))
        IN  /\ (signed.schema.set /\ present # declared) => signed.state = "threw"
            /\ signed.state = "threw" =>
                  /\ ~signed.called
                  /\ _sig = signed.sigBefore
                  /\ _encodedAttributes = signed.encodedAttributesBefore

\* a sign that fails on a builder that holds the signature of an earlier sign,
\* the serialized fields containing a leaf the schema does not declare
C6_Witness ==
    /\ signed.state = "threw"
    /\ signed.schema.set
    /\ signed.sigBefore.set
    /\ Range(Keys(flatten(signed.schema.jsonSchema)))
           \subseteq Range(Keys(flatten(signed.cred)))
    /\ Range(Keys(flatten(signed.schema.jsonSchema)))
           # Range(Keys(flatten(signed.cred)))

\* C7 as stated: Credential.serializeForSigning returns an object holding the
\* version tag, the schema as a JSON string, the subject, every top-level field,
\* the status block exactly when credentialStatus is defined, and a proof entry
\* without proofValue, which is the default {type} when the credential carries
\* no proof metadata.
C7_Original ==
    serialized.state = "returned" =>
        LET s == serialized.ret
            fields == serialized.fieldsBefore
            p == Get(s, PROOF_STR)
        IN  /\ Get(s, CRYPTO_VERSION_STR) = credential.version
            /\ Get(s, SCHEMA_STR).tag = "leaf"
            /\ Get(s, SCHEMA_STR) = toJsonString(credential.schema)
            /\ Get(s, SUBJECT_STR) = credential.subject
            /\ \A i \in 1..Len(fields) :
                  fields[i].k # PROOF_STR => Get(s, fields[i].k) = fields[i].v
            /\ (credential.credentialStatus # Undefined)
                  <=> (STATUS_STR \in Range(Keys(s)))
            /\ credential.credentialStatus # Undefined =>
                  Get(s, STATUS_STR) = credential.credentialStatus
            /\ proofValue \notin Range(Keys(p.kids))
            /\ PROOF_STR \notin Range(Keys(fields)) => p = ProofMetadata

\* C20 as stated: Credential.serializeForSigning leaves the credential as it
\* was: its version, schema, subject and credentialStatus, and every value held
\* in topLevelFields, a proof field with a proofValue included
C20_Original ==
    [][serialized' # serialized =>
          (serialized'.state = "returned" =>
              /\ credential' = credential
              /\ _topLevelFields' = _topLevelFields)]_vars

\* C21 as stated: whatever topLevelFields holds, the object serializeForSigning
\* returns, of the Credential and of the CredentialBuilder, has the version under
\* the version key, the JSON string of the schema under the schema key and the
\* subject under the subject key; a top-level field named after one of these
\* keys never replaces them
C21_Original ==
    /\ serialized.state = "returned" =>
          /\ Get(serialized.ret, CRYPTO_VERSION_STR) = credential.version
          /\ Get(serialized.ret, SCHEMA_STR) = toJsonString(credential.schema)
          /\ Get(serialized.ret, SUBJECT_STR) = credential.subject
    /\ (signed.state # "none" /\ signed.schema.set) =>
          /\ Get(signed.cred, CRYPTO_VERSION_STR) = Leaf(VERSION)
          /\ Get(signed.cred, SCHEMA_STR) = toJsonString(signed.schema)
          /\ Get(signed.cred, SUBJECT_STR) = _subject

\* C22 as stated: for a credential that sign returned and that was not modified
\* since, the object Credential.serializeForSigning builds has the flattened
\* names and values of the object CredentialBuilder.serializeForSigning built
\* and sign signed
C22_Original ==
    (signed.state = "returned" /\ serialized.state = "returned") =>
        Content(flatten(serialized.ret)) = Content(flatten(signed.cred))

(***************************************************************************)
(* Composite proofs: generate and verify over the proof engine             *)
(***************************************************************************)
\* an absent optional nonce, and a nonce of the given bytes
NoNonce == [set |-> FALSE, bytes |-> <<>>]
Nonce(bytes) == [set |-> TRUE, bytes |-> bytes]

\* new ProofSpec(statements, metaStatements, setupParams, context): its value is
\* the engine's serialisation of the statements and the context
ProofSpec(statements, context) == [value |-> <<statements, context>>]

\* new Witnesses(...): the witnesses, one for each statement
Witnesses(witnessList) == [values |-> witnessList]

\* the witness is one for the statement: it opens the commitment of a Pedersen
\* statement under the statement's bases, it is the signature of another one
Satisfies(statement, witness) ==
    /\ statement.relation = witness.relation
    /\ IF statement.relation = "pedersen"
       THEN statement.commitment = [bases |-> statement.bases,
                                    openings |-> witness.elements]
       ELSE statement = witness

\* the engine's generateCompositeProofG1(proofSpec, witnesses, nonce): it fails
\* when the witnesses are not one for each statement; the proof it returns is
\* bound to the proof spec and the nonce, and is sound when every witness
\* satisfies its statement
generateCompositeProofG1(proofSpecValue, witnessValues, nonce) ==
    IF Len(witnessValues) # Len(proofSpecValue[1])
    THEN [threw |-> TRUE, proof |-> <<>>]
    ELSE [threw |-> FALSE,
          proof |-> [spec |-> proofSpecValue, nonce |-> nonce,
                     sound |-> \A i \in 1..Len(witnessValues) :
                                  Satisfies(proofSpecValue[1][i], witnessValues[i])]]

\* the engine's verifyCompositeProofG1(proof, proofSpec, nonce): a VerifyResult
verifyCompositeProofG1(proofBytes, proofSpecValue, nonce) ==
    [verified |-> proofBytes.sound /\ proofBytes.spec = proofSpecValue
                      /\ proofBytes.nonce = nonce]

\* the same call of the older engine
verifyCompositeProofG1Old(proofBytes, proofSpecValue, nonce) ==
    [verified |-> proofBytes.sound /\ proofBytes.spec = proofSpecValue
                      /\ proofBytes.nonce = nonce]

\* CompositeProof.generate(proofSpec, witnesses, nonce)
generate(proofSpec, witnesses, nonce) ==
    LET r == generateCompositeProofG1(proofSpec.value, witnesses.values, nonce)
    IN  IF r.threw THEN [threw |-> TRUE, ret |-> <<>>]
        ELSE [threw |-> FALSE, ret |-> [value |-> r.proof]]

\* verify that does not hand the nonce to the engine
verifyWithoutNonce(this, proofSpec, nonce, useNewVersion) ==
    IF useNewVersion
    THEN verifyCompositeProofG1(this.value, proofSpec.value, NoNonce)
    ELSE verifyCompositeProofG1Old(this.value, proofSpec.value, NoNonce)

\* a mutant: verify that reports every proof as verified
verifyAlways(this, proofSpec, nonce, useNewVersion) == [verified |-> TRUE]

\* CompositeProof.verify(proofSpec, nonce, useNewVersion) on the proof this
verify(this, proofSpec, nonce, useNewVersion) ==
    IF useNewVersion
    THEN verifyCompositeProofG1(this.value, proofSpec.value, nonce)
    ELSE verifyCompositeProofG1Old(this.value, proofSpec.value, nonce)

MaxStatements == 2
StatementIds == {[relation |-> "signature", id |-> "sig1"],
                 [relation |-> "signature", id |-> "sig2"]}
StatementLists == UNION {[1..n -> StatementIds] : n \in 1..MaxStatements}
ProofSpecs == {ProofSpec(st, "some context") : st \in StatementLists}
WitnessLists == {Witnesses(w) : w \in StatementLists}
Nonces == {NoNonce, Nonce(<<1>>), Nonce(<<2>>)}

\* the prover generates the proof
Generate ==
    /\ proof.state = "none"
    /\ \E proofSpec \in ProofSpecs, witnesses \in WitnessLists, nonce \in Nonces :
          LET r == generate(proofSpec, witnesses, nonce)
          IN  proof' = [state |-> Outcome(r), proofSpec |-> proofSpec,
                        witnesses |-> witnesses, nonce |-> nonce, ret |-> r.ret]
    /\ UNCHANGED verified

\* the verifier verifies the proof it received
Verify ==
    /\ proof.state = "returned"
    /\ \E proofSpec \in ProofSpecs, nonce \in Nonces, useNewVersion \in BOOLEAN :
          verified' = [state |-> "returned", proofSpec |-> proofSpec,
                       nonce |-> nonce, useNewVersion |-> useNewVersion,
                       ret |-> verify(proof.ret, proofSpec, nonce, useNewVersion)]
    /\ UNCHANGED proof

othersProof == <<msgVars, idxVars, credVars, accVars, sigVars>>

NextProof ==
    \/ Generate /\ UNCHANGED othersProof
    \/ Verify /\ UNCHANGED othersProof

InitProof == IdleProof /\ IdleMsgs /\ IdleStructures /\ IdleIdx /\ IdleCred /\ IdleAcc /\ IdleSig

SpecProof == InitProof /\ [][NextProof]_vars

\* C9: a proof generated from a proof spec and witnesses that match it verifies
\* under the same proof spec and the same nonce, and verifies false under the
\* same proof spec and any other nonce.
C9_NonceBinding ==
    (verified.state = "returned"
        /\ proof.witnesses.values = proof.proofSpec.value[1]
        /\ verified.proofSpec = proof.proofSpec) =>
        /\ (verified.nonce = proof.nonce /\ verified.useNewVersion)
              => verified.ret.verified
        /\ verified.nonce # proof.nonce => ~verified.ret.verified

\* a proof generated with a nonce and verified under the same proof spec with
\* another nonce
C9_Witness ==
    /\ verified.state = "returned"
    /\ proof.witnesses.values = proof.proofSpec.value[1]
    /\ verified.proofSpec = proof.proofSpec
    /\ proof.nonce.set
    /\ verified.nonce.set
    /\ verified.nonce # proof.nonce
    /\ ~verified.ret.verified

(***************************************************************************)
(* Accumulator: single-element add and remove on the state                 *)
(***************************************************************************)
\* Accumulator.encodePositiveNumberAsAccumulatorMember(n): the little-endian
\* bytes of the number
encodePositiveNumberAsAccumulatorMember(n) == <<n % 256, n \div 256>>

\* add that does not look the element up
addUnchecked(state, e) == [threw |-> FALSE, state |-> state \cup {e}]

\* accumulator.add(e, sk, state, store): fails when the state has the element
add(state, e) ==
    IF e \in state THEN [threw |-> TRUE, state |-> state]
    ELSE [threw |-> FALSE, state |-> state \cup {e}]

\* accumulator.remove(e, sk, state, store): fails when the state lacks the element
remove(state, e) ==
    IF e \notin state THEN [threw |-> TRUE, state |-> state]
    ELSE [threw |-> FALSE, state |-> state \ {e}]

RECURSIVE AddEach(_, _, _)
\* the elements of a batch added one after the other, up to the first one held
AddEach(state, elements, i) ==
    IF i > Len(elements) THEN [threw |-> FALSE, state |-> state]
    ELSE IF elements[i] \in state THEN [threw |-> TRUE, state |-> state]
    ELSE AddEach(state \cup {elements[i]}, elements, i + 1)

\* addBatch that adds element by element and stops at the first one held
addBatchElementwise(state, elements) == AddEach(state, elements, 1)

\* accumulator.addBatch(elements, sk, state, store): fails when the state has
\* any of the elements; the state is written only when none is held
addBatch(state, elements) ==
    IF \E i \in 1..Len(elements) : elements[i] \in state
    THEN [threw |-> TRUE, state |-> state]
    ELSE [threw |-> FALSE, state |-> state \cup Range(elements)]

\* accumulator.removeBatch(elements, sk, state, store): fails when the state
\* lacks any of the elements; the state is written only when all are held
removeBatch(state, elements) ==
    IF \E i \in 1..Len(elements) : elements[i] \notin state
    THEN [threw |-> TRUE, state |-> state]
    ELSE [threw |-> FALSE, state |-> state \ Range(elements)]

\* addRemoveBatches that leaves the removals out
addRemoveBatchesAddOnly(state, additions, removals) ==
    IF (\E i \in 1..Len(additions) : additions[i] \in state)
           \/ (\E i \in 1..Len(removals) : removals[i] \notin state)
    THEN [threw |-> TRUE, state |-> state]
    ELSE [threw |-> FALSE, state |-> state \cup Range(additions)]

\* accumulator.addRemoveBatches(additions, removals, sk, state, store)
addRemoveBatches(state, additions, removals) ==
    IF (\E i \in 1..Len(additions) : additions[i] \in state)
           \/ (\E i \in 1..Len(removals) : removals[i] \notin state)
    THEN [threw |-> TRUE, state |-> state]
    ELSE [threw |-> FALSE, state |-> (state \cup Range(additions)) \ Range(removals)]

MaxElements == 4
MaxBatch == 2
Elements == {encodePositiveNumberAsAccumulatorMember(100 + i) : i \in 1..MaxElements}

\* await accumulator.add(e, sk, state, store)
Add ==
    /\ accumulatorOp.state = "none"
    /\ \E e \in Elements :
           LET r == add(accumulatorState, e)
           IN  /\ accumulatorState' = r.state
               /\ accumulatorOp' = [state |-> Outcome(r), op |-> "add", e |-> e,
                                    before |-> accumulatorState]

\* await accumulator.remove(e, sk, state, store)
Remove ==
    /\ accumulatorOp.state = "none"
    /\ \E e \in Elements :
           LET r == remove(accumulatorState, e)
           IN  /\ accumulatorState' = r.state
               /\ accumulatorOp' = [state |-> Outcome(r), op |-> "remove", e |-> e,
                                    before |-> accumulatorState]

\* the arrays of elements a batch call may be given
Batches == UNION {[1..n -> Elements] : n \in 1..MaxBatch}

\* await accumulator.addBatch(elements, sk, state, store)
AddBatch ==
    /\ accumulatorOp.state = "none"
    /\ \E elements \in Batches :
           LET r == addBatch(accumulatorState, elements)
           IN  /\ accumulatorState' = r.state
               /\ accumulatorOp' = [state |-> Outcome(r), op |-> "addBatch",
                                    additions |-> elements, removals |-> <<>>,
                                    before |-> accumulatorState]

\* await accumulator.removeBatch(elements, sk, state, store)
RemoveBatch ==
    /\ accumulatorOp.state = "none"
    /\ \E elements \in Batches :
           LET r == removeBatch(accumulatorState, elements)
           IN  /\ accumulatorState' = r.state
               /\ accumulatorOp' = [state |-> Outcome(r), op |-> "removeBatch",
                                    additions |-> <<>>, removals |-> elements,
                                    before |-> accumulatorState]

\* await accumulator.addRemoveBatches(additions, removals, sk, state, store)
AddRemoveBatches ==
    /\ accumulatorOp.state = "none"
    /\ \E additions \in Batches, removals \in Batches :
           LET r == addRemoveBatches(accumulatorState, additions, removals)
           IN  /\ accumulatorState' = r.state
               /\ accumulatorOp' = [state |-> Outcome(r), op |-> "addRemoveBatches",
                                    additions |-> additions, removals |-> removals,
                                    before |-> accumulatorState]

\* the expectations on state.state that follow each call
Expect ==
    /\ accumulatorOp.state # "none"
    /\ accumulatorOp' = NoResult
    /\ UNCHANGED accumulatorState

othersAcc == <<msgVars, idxVars, credVars, proofVars, sigVars>>

NextAcc ==
    \/ Add /\ UNCHANGED othersAcc
    \/ Remove /\ UNCHANGED othersAcc
    \/ AddBatch /\ UNCHANGED othersAcc
    \/ RemoveBatch /\ UNCHANGED othersAcc
    \/ AddRemoveBatches /\ UNCHANGED othersAcc
    \/ Expect /\ UNCHANGED othersAcc

InitAcc == IdleAcc /\ IdleMsgs /\ IdleStructures /\ IdleIdx /\ IdleCred /\ IdleProof /\ IdleSig

SpecAcc == InitAcc /\ [][NextAcc]_vars

\* C10: after any earlier operations, add(e) fails when e is in the state and
\* remove(e) fails when e is not, the members being unchanged in both cases; an
\* add that succeeds makes has(e) true and the size one larger, a remove that
\* succeeds makes has(e) false and the size one smaller.
C10_SingleElement ==
    accumulatorOp.state # "none" =>
        LET e == accumulatorOp.e
            before == accumulatorOp.before
        IN  /\ (accumulatorOp.op = "add" /\ e \in before) =>
                  accumulatorOp.state = "threw"
            /\ (accumulatorOp.op = "remove" /\ e \notin before) =>
                  accumulatorOp.state = "threw"
            /\ accumulatorOp.state = "threw" => accumulatorState = before
            /\ (accumulatorOp.op = "add" /\ accumulatorOp.state = "returned") =>
                  /\ e \in accumulatorState
                  /\ Cardinality(accumulatorState) = Cardinality(before) + 1
            /\ (accumulatorOp.op = "remove" /\ accumulatorOp.state = "returned") =>
                  /\ e \notin accumulatorState
                  /\ Cardinality(accumulatorState) = Cardinality(before) - 1

\* the scenario of the common tests: e1 is held, a second add(e1) has failed
C10_Witness ==
    /\ accumulatorOp.state = "threw"
    /\ accumulatorOp.op = "add"
    /\ accumulatorOp.e = encodePositiveNumberAsAccumulatorMember(101)
    /\ accumulatorState = {encodePositiveNumberAsAccumulatorMember(101)}

\* C11: addBatch fails when any of its elements is a member and removeBatch
\* fails when any of its elements is not; a failed batch leaves the members
\* exactly as they were, none of its elements added or removed.
C11_BatchAllOrNothing ==
    accumulatorOp.state # "none" =>
        LET before == accumulatorOp.before
        IN  /\ (accumulatorOp.op = "addBatch"
                   /\ Range(accumulatorOp.additions) \cap before # {}) =>
                  /\ accumulatorOp.state = "threw"
                  /\ accumulatorState = before
            /\ (accumulatorOp.op = "removeBatch"
                   /\ ~(Range(accumulatorOp.removals) \subseteq before)) =>
                  /\ accumulatorOp.state = "threw"
                  /\ accumulatorState = before

\* a batch of two that fails on its second element only, on a 3-member state
C11_Witness ==
    /\ accumulatorOp.state = "threw"
    /\ accumulatorOp.op = "addBatch"
    /\ Len(accumulatorOp.additions) = 2
    /\ accumulatorOp.additions[1] \notin accumulatorOp.before
    /\ accumulatorOp.additions[2] \in accumulatorOp.before
    /\ Cardinality(accumulatorState) = 3

\* C16: addRemoveBatches(A, R) on a state M holding no element of A and every
\* element of R leaves the state (M union A) minus R.
C16_AddRemoveBatches ==
    (accumulatorOp.state # "none" /\ accumulatorOp.op = "addRemoveBatches"
        /\ Range(accumulatorOp.additions) \cap accumulatorOp.before = {}
        /\ Range(accumulatorOp.removals) \subseteq accumulatorOp.before) =>
        /\ accumulatorOp.state = "returned"
        /\ accumulatorState =
               (accumulatorOp.before \cup Range(accumulatorOp.additions))
                   \ Range(accumulatorOp.removals)

\* the scenario of the common tests: from a one-member state, two elements are
\* added and the member is removed, leaving exactly the two
C16_Witness ==
    /\ accumulatorOp.state = "returned"
    /\ accumulatorOp.op = "addRemoveBatches"
    /\ Cardinality(accumulatorOp.before) = 1
    /\ Range(accumulatorOp.removals) = accumulatorOp.before
    /\ Cardinality(Range(accumulatorOp.additions)) = 2
    /\ accumulatorState = Range(accumulatorOp.additions)


(***************************************************************************)
(* Compatibility of a messages object with a message structure             *)
(***************************************************************************)
InitValid ==
    /\ messages \in MessageObjects
    /\ msgStructure \in Structures
    /\ valid = NoResult

\* isValidMsgStructure(messages, msgStructure)
IsValidMsgStructure ==
    /\ valid.state = "none"
    /\ valid' = [state |-> "returned", ret |-> isValidMsgStructure(messages, msgStructure)]
    /\ UNCHANGED <<messages, msgStructure>>

othersValid ==
    <<revealedMsgNames, rau, erm, idxVars, credVars, proofVars, accVars,
      holderVars, callVars, blindVars>>

NextValid ==
    IsValidMsgStructure /\ UNCHANGED othersValid

InitValidOnly ==
    /\ InitValid
    /\ revealedMsgNames = <<>> /\ rau = NoResult /\ erm = NoResult
    /\ IdleIdx /\ IdleCred /\ IdleProof /\ IdleAcc /\ IdleHolder /\ IdleCalls /\ IdleBlind

SpecValid == InitValidOnly /\ [][NextValid]_vars

\* C14: isValidMsgStructure returns true exactly when the flattened leaf names of
\* the messages and of the structure are the same set: false for as many names
\* with one that differs, true for two empty objects
C14_ValidStructure ==
    valid.state # "none" =>
        /\ valid.ret = (NameSet(messages) = StructNameSet(msgStructure))
        /\ (/\ Cardinality(NameSet(messages)) = Cardinality(StructNameSet(msgStructure))
            /\ NameSet(messages) # StructNameSet(msgStructure)) => valid.ret = FALSE
        /\ (messages = <<>> /\ msgStructure = <<>>) => valid.ret = TRUE

\* a messages object and a structure of two names each, one shared, answered false
C14_Witness ==
    /\ valid.state = "returned"
    /\ Cardinality(NameSet(messages)) = 2
    /\ Cardinality(StructNameSet(msgStructure)) = 2
    /\ Cardinality(NameSet(messages) \cap StructNameSet(msgStructure)) = 1
    /\ valid.ret = FALSE

(***************************************************************************)
(* The partitioner, the index resolver and the builders, called again and  *)
(* again on the same inputs                                                *)
(***************************************************************************)
\* the largest message index that is hidden
MaxIndex == 2

\* the hidden messages: some indices in any insertion order, every message its own
HiddenMaps ==
    {[i \in 1..Len(ks) |-> Entry(ks[i], 100 + i)] :
        ks \in DistinctSeqs(0..MaxIndex, MaxIndex + 1) \ {<<>>}}

\* the blinding of every hidden index, in the order of the hidden messages
FullBlindings(hidden) == [i \in 1..Len(hidden) |-> Entry(hidden[i].k, 10 + hidden[i].k)]

\* the blindings a holder may pass: all of them in either order, all but one, none
BlindingsFor(hidden) ==
    {FullBlindings(hidden), Reverse(FullBlindings(hidden)), Tail(FullBlindings(hidden)), <<>>}

SigParams(name) == [scheme |-> name, value |-> [g |-> Generator("g", 0)]]

\* the extra G1 element of PS: generateRandomG1Element()
h == Generator("h~", 0)

\* the commitment of a request to the hidden messages under the blinding
RequestCommitment(hidden, r, sigParams) ==
    LET sorted == SortByKey(hidden)
        keys == getParamsForIndices(sigParams, Keys(sorted))
    IN  CASE sigParams.scheme = "PS" ->
                 Commit(<<sigParams.value.g>> \o keys, <<r>> \o Values(sorted))
          [] sigParams.scheme = "BBS+" -> Commit(keys, <<r>> \o Values(sorted))
          [] OTHER -> Commit(keys, Values(sorted))

\* a PS request for the hidden messages: one commitment for each hidden index, in
\* the order of the hidden messages
PSRequest(hidden, r, rs) ==
    [set |-> TRUE,
     commitment |-> RequestCommitment(hidden, r, SigParams("PS")),
     blindedIndices |-> Keys(SortByKey(hidden)),
     commitments |-> [i \in 1..Len(hidden) |->
                         Entry(hidden[i].k,
                               Commit(<<SigParams("PS").value.g, h>>,
                                      <<GetValue(rs, hidden[i].k), hidden[i].v>>))]]

\* the requests a holder may hold: the commitments in either insertion order
RequestsFor(hidden, r) ==
    LET req == PSRequest(hidden, r, FullBlindings(hidden))
    IN  {req, [req EXCEPT !.commitments = Reverse(req.commitments)]}

\* two messages objects, one flat and one nested, for the partitioner
PartitionerObjects ==
    {TestAttributes,
     <<Entry(<<97>>, Node(<<Entry(<<98>>, Leaf("v1")), Entry(<<97>>, Leaf("v2"))>>))>>}

InitCalls ==
    /\ messages \in PartitionerObjects
    /\ revealedMsgNames \in DistinctSeqs(Candidates(messages), 1)
    /\ msgStructure \in {st \in Structures \cup {TestStructure} : NameSet(st) = NameSet(messages)}
    /\ hiddenMsgs \in HiddenMaps
    /\ blinding = 7
    /\ blindings \in BlindingsFor(hiddenMsgs)
    /\ request \in RequestsFor(hiddenMsgs, blinding)
    /\ firstCall = NoResult
    /\ lastCall = NoResult

\* the arguments the calls are made with
Inputs == <<messages, revealedMsgNames, msgStructure, hiddenMsgs, blinding, blindings, request>>

\* a call is noted: the first one with the inputs before it, and every later
\* call of the same function
Called(fn, threw, ret) ==
    IF firstCall.state = "none"
    THEN /\ firstCall' = [state |-> "made", fn |-> fn, threw |-> threw, ret |-> ret,
                          before |-> Inputs]
         /\ lastCall' = lastCall
    ELSE /\ firstCall' = firstCall
         /\ lastCall' = IF fn = firstCall.fn
                        THEN [state |-> "made", fn |-> fn, threw |-> threw, ret |-> ret]
                        ELSE lastCall

CallGetRevealedAndUnrevealed ==
    /\ LET r == getRevealedAndUnrevealed(messages, revealedMsgNames)
       IN  Called("getRevealedAndUnrevealed", r.threw, r)
    /\ UNCHANGED <<messages, revealedMsgNames, msgStructure, holderVars>>

CallEncodeRevealedMsgs ==
    /\ LET g == getRevealedAndUnrevealed(messages, revealedMsgNames)
       IN  /\ ~g.threw
           /\ LET r == encodeRevealedMsgs(g.revealedMsgsRaw, msgStructure)
              IN  Called("encodeRevealedMsgs", r.threw, r)
    /\ UNCHANGED <<messages, revealedMsgNames, msgStructure, holderVars>>

CallGetIndicesForMsgNames ==
    /\ LET r == getIndicesForMsgNames(revealedMsgNames, msgStructure)
       IN  Called("getIndicesForMsgNames", r.threw, r)
    /\ UNCHANGED <<messages, revealedMsgNames, msgStructure, holderVars>>

CallCreateWitnessEqualityMetaStatement ==
    /\ LET equality ==
               <<Entry(0, [names |-> revealedMsgNames, struct |-> msgStructure]),
                 Entry(1, [names |-> revealedMsgNames, struct |-> msgStructure])>>
           r == createWitnessEqualityMetaStatement(equality)
       IN  Called("createWitnessEqualityMetaStatement", r.threw, r)
    /\ UNCHANGED <<messages, revealedMsgNames, msgStructure, holderVars>>

CallGetBBSStatement ==
    /\ LET r == getBBSStatementForBlindSigRequest(request, SigParams("BBS"))
       IN  /\ Called("getBBSStatementForBlindSigRequest", r.threw, r.ret)
           /\ request' = r.request
    /\ UNCHANGED <<messages, revealedMsgNames, msgStructure, hiddenMsgs, blinding, blindings>>

CallGetBBSWitness ==
    /\ LET r == getBBSWitnessForBlindSigRequest(hiddenMsgs)
       IN  /\ Called("getBBSWitnessForBlindSigRequest", r.threw, r.ret)
           /\ hiddenMsgs' = r.messages
    /\ UNCHANGED <<messages, revealedMsgNames, msgStructure, blinding, blindings, request>>

CallGetBBSPlusStatement ==
    /\ LET r == getBBSPlusStatementForBlindSigRequest(request, SigParams("BBS+"))
       IN  /\ Called("getBBSPlusStatementForBlindSigRequest", r.threw, r.ret)
           /\ request' = r.request
    /\ UNCHANGED <<messages, revealedMsgNames, msgStructure, hiddenMsgs, blinding, blindings>>

CallGetBBSPlusWitness ==
    /\ LET r == getBBSPlusWitnessForBlindSigRequest(hiddenMsgs, blinding)
       IN  /\ Called("getBBSPlusWitnessForBlindSigRequest", r.threw, r.ret)
           /\ hiddenMsgs' = r.messages
    /\ UNCHANGED <<messages, revealedMsgNames, msgStructure, blinding, blindings, request>>

CallGetPSStatements ==
    /\ LET r == getPSStatementsForBlindSigRequest(request, SigParams("PS"), h)
       IN  /\ Called("getPSStatementsForBlindSigRequest", r.threw, r.ret)
           /\ request' = r.request
    /\ UNCHANGED <<messages, revealedMsgNames, msgStructure, hiddenMsgs, blinding, blindings>>

CallGetPSWitnesses ==
    /\ LET r == getPSWitnessesForBlindSigRequest(hiddenMsgs, blinding, blindings)
       IN  /\ Called("getPSWitnessesForBlindSigRequest", r.threw, r.ret)
           /\ hiddenMsgs' = r.messages
           /\ blindings' = r.blindings
    /\ UNCHANGED <<messages, revealedMsgNames, msgStructure, blinding, request>>

othersCalls == <<rau, erm, valid, idxVars, credVars, proofVars, accVars, blindVars>>

NextCalls ==
    \/ CallGetRevealedAndUnrevealed /\ UNCHANGED othersCalls
    \/ CallEncodeRevealedMsgs /\ UNCHANGED othersCalls
    \/ CallGetIndicesForMsgNames /\ UNCHANGED othersCalls
    \/ CallCreateWitnessEqualityMetaStatement /\ UNCHANGED othersCalls
    \/ CallGetBBSStatement /\ UNCHANGED othersCalls
    \/ CallGetBBSWitness /\ UNCHANGED othersCalls
    \/ CallGetBBSPlusStatement /\ UNCHANGED othersCalls
    \/ CallGetBBSPlusWitness /\ UNCHANGED othersCalls
    \/ CallGetPSStatements /\ UNCHANGED othersCalls
    \/ CallGetPSWitnesses /\ UNCHANGED othersCalls

InitCallsOnly ==
    /\ InitCalls
    /\ rau = NoResult /\ erm = NoResult /\ valid = NoResult
    /\ IdleIdx /\ IdleCred /\ IdleProof /\ IdleAcc /\ IdleBlind

SpecCalls == InitCallsOnly /\ [][NextCalls]_vars

\* the k-th smallest key of a map
KthIndex(map, k) ==
    CHOOSE i \in MapKeys(map) : Cardinality({j \in MapKeys(map) : j < i}) = k - 1

\* the values of a map in ascending order of their keys
AscendingValues(map) == [k \in 1..Len(map) |-> GetValue(map, KthIndex(map, k))]

C18_WitnessOrder ==
    firstCall.state # "none" =>
        /\ firstCall.fn = "getBBSWitnessForBlindSigRequest" =>
              /\ ~firstCall.threw
              /\ firstCall.ret.elements = AscendingValues(hiddenMsgs)
              /\ Len(firstCall.ret.elements) = Len(hiddenMsgs)
        /\ firstCall.fn = "getBBSPlusWitnessForBlindSigRequest" =>
              /\ ~firstCall.threw
              /\ firstCall.ret.elements = <<blinding>> \o AscendingValues(hiddenMsgs)
        /\ (firstCall.fn = "getPSWitnessesForBlindSigRequest" /\ ~firstCall.threw) =>
              firstCall.ret[1].elements = <<blinding>> \o AscendingValues(hiddenMsgs)

\* the BBS+ witness of three hidden messages inserted in descending order of index
C18_Witness ==
    /\ firstCall.state # "none"
    /\ firstCall.fn = "getBBSPlusWitnessForBlindSigRequest"
    /\ Len(hiddenMsgs) = 3
    /\ hiddenMsgs = Reverse(SortByKey(hiddenMsgs))

\* C19: with a commitment and a blinding for each of the n hidden indices, the PS
\* statements and the PS witnesses are 1 + n long, and the k-th statement after
\* the first holds the commitment, the k-th witness after the first the blinding
\* and the message, of the k-th smallest index; without a blinding for some
\* hidden index the witness call throws
C19_PSLineUp ==
    (firstCall.state # "none" /\ MapKeys(request.commitments) = MapKeys(hiddenMsgs)) =>
        LET n == Len(hiddenMsgs)
        IN  /\ firstCall.fn = "getPSStatementsForBlindSigRequest" =>
                  /\ ~firstCall.threw
                  /\ Len(firstCall.ret) = 1 + n
                  /\ \A k \in 1..n :
                         firstCall.ret[k + 1].commitment =
                             GetValue(request.commitments, KthIndex(hiddenMsgs, k))
            /\ (firstCall.fn = "getPSWitnessesForBlindSigRequest"
                    /\ MapKeys(hiddenMsgs) \subseteq MapKeys(blindings)) =>
                  /\ ~firstCall.threw
                  /\ Len(firstCall.ret) = 1 + n
                  /\ \A k \in 1..n :
                         firstCall.ret[k + 1].elements =
                             <<GetValue(blindings, KthIndex(hiddenMsgs, k)),
                               GetValue(hiddenMsgs, KthIndex(hiddenMsgs, k))>>
            /\ (firstCall.fn = "getPSWitnessesForBlindSigRequest"
                    /\ ~(MapKeys(hiddenMsgs) \subseteq MapKeys(blindings))) =>
                  firstCall.threw

\* the PS statements of a request whose three commitments are not stored in the
\* order of their indices, nor in the order of the hidden messages
C19_Witness ==
    /\ firstCall.state # "none"
    /\ firstCall.fn = "getPSStatementsForBlindSigRequest"
    /\ Len(request.commitments) = 3
    /\ request.commitments # SortByKey(request.commitments)
    /\ Keys(request.commitments) # Keys(hiddenMsgs)
    /\ MapKeys(hiddenMsgs) \subseteq MapKeys(blindings)

(***************************************************************************)
(* Requesting a blind signature: the run of the holder and the signer      *)
(***************************************************************************)
\* the keypair of the signer
sk == "sk"
pk == "pk"
PublicKeyOf(secretKey) == IF secretKey = sk THEN pk ELSE "none"

RECURSIVE HideLoop(_, _, _, _, _)
\* hiddenAttrNames.forEach: a name that is found gives hiddenMsgs its index and
\* its encoded value
HideLoop(names, encodedValues, hiddenNames, j, acc) ==
    IF j > Len(hiddenNames) THEN acc
    ELSE LET i == indexOf(names, hiddenNames[j])
         IN  IF i # -1
             THEN HideLoop(names, encodedValues, hiddenNames, j + 1,
                           [hiddenMsgs |-> Put(acc.hiddenMsgs, i, encodedValues[i + 1]),
                            found |-> acc.found + 1])
             ELSE HideLoop(names, encodedValues, hiddenNames, j + 1, acc)

\* a mutant: a hidden message is stored under its position among the hidden names
HiddenMsgsByPosition(attributes, hiddenNames) ==
    LET enc == encodeMessageObject(attributes)
        r == HideLoop(enc.names, enc.encodedValues, hiddenNames, 1,
                      [hiddenMsgs |-> <<>>, found |-> 0])
    IN  [threw |-> Len(hiddenNames) # r.found,
         hiddenMsgs |-> [j \in 1..Len(r.hiddenMsgs) |-> Entry(j - 1, r.hiddenMsgs[j].v)]]

\* the hidden messages of the holder: encodeMessageObject, then the loop over the
\* hidden names; it throws when a hidden name is not a name of the attributes
HiddenMsgsOf(attributes, hiddenNames) ==
    LET enc == encodeMessageObject(attributes)
        r == HideLoop(enc.names, enc.encodedValues, hiddenNames, 1,
                      [hiddenMsgs |-> <<>>, found |-> 0])
    IN  [threw |-> Len(hiddenNames) # r.found, hiddenMsgs |-> r.hiddenMsgs]

\* BlindSignature.generateRequest(hiddenMsgs, sigParams, ...): the commitment to
\* the hidden messages, for PS with one commitment and one blinding for each
\* hidden index, for BBS+ with one blinding, for BBS with none
generateRequest(hidden, sigParams) ==
    CASE sigParams.scheme = "PS" ->
             [blinding |-> 7, blindings |-> FullBlindings(hidden),
              request |-> PSRequest(hidden, 7, FullBlindings(hidden))]
      [] sigParams.scheme = "BBS+" ->
             [blinding |-> 7, blindings |-> <<>>,
              request |-> [set |-> TRUE,
                           commitment |-> RequestCommitment(hidden, 7, sigParams),
                           blindedIndices |-> Keys(SortByKey(hidden)),
                           commitments |-> <<>>]]
      [] OTHER ->
             [blinding |-> 0, blindings |-> <<>>,
              request |-> [set |-> TRUE,
                           commitment |-> RequestCommitment(hidden, 0, sigParams),
                           blindedIndices |-> Keys(SortByKey(hidden)),
                           commitments |-> <<>>]]

\* getWitnessForBlindSigRequest(hiddenMsgs, blinding, blindings) of the scheme
getWitnessForBlindSigRequest(sigParams, hidden, r, rs) ==
    CASE sigParams.scheme = "PS" ->
             LET w == getPSWitnessesForBlindSigRequest(hidden, r, rs)
             IN  [threw |-> w.threw, ret |-> w.ret]
      [] sigParams.scheme = "BBS+" ->
             [threw |-> FALSE, ret |-> <<getBBSPlusWitnessForBlindSigRequest(hidden, r).ret>>]
      [] OTHER ->
             [threw |-> FALSE, ret |-> <<getBBSWitnessForBlindSigRequest(hidden).ret>>]

\* getStatementForBlindSigRequest(request, sigParams, h) of the scheme
getStatementForBlindSigRequest(req, sigParams) ==
    CASE sigParams.scheme = "PS" -> getPSStatementsForBlindSigRequest(req, sigParams, h).ret
      [] sigParams.scheme = "BBS+" ->
             <<getBBSPlusStatementForBlindSigRequest(req, sigParams).ret>>
      [] OTHER -> <<getBBSStatementForBlindSigRequest(req, sigParams).ret>>

\* checkResult(result): throws unless the result is verified
checkResult(result) == [threw |-> ~result.verified]

\* the messages of an object under their indices in the sorted flattened names of
\* the structure
KnownMessages(known, struct) ==
    LET flattenedAllNames == Sort(Keys(flattenMessageStructure(struct)))
        enc == encodeMessageObject(known)
    IN  {<<i - 1, enc.encodedValues[indexOf(enc.names, flattenedAllNames[i]) + 1]>> :
            i \in {i \in 1..Len(flattenedAllNames) :
                      indexOf(enc.names, flattenedAllNames[i]) # -1}}

\* BlindSignature.blindSignMessageObject(request, knownAttributes, sk, struct,
\* params, encoder): the known messages are encoded under their indices in the
\* structure, and the signature is made over them and the commitment of the
\* request; a known name that the structure does not have makes it throw
blindSignMessageObject(req, known, secretKey, struct) ==
    LET knownMessages == KnownMessages(known, struct)
    IN  IF Cardinality(knownMessages) # Len(Keys(flatten(known)))
        THEN [threw |-> TRUE, signature |-> <<>>]
        ELSE [threw |-> FALSE,
              signature |-> [signer |-> secretKey, request |-> req,
                             known |-> knownMessages]]

\* the messages a commitment holds, each under the index of its generator
Committed(commitment) ==
    {<<commitment.bases[j].i, commitment.openings[j]>> :
        j \in {j \in 1..Len(commitment.bases) : commitment.bases[j].name = "h"}}

\* blindSignature.signature.unblind(...): the signature over the known and the
\* committed messages, good when the blinding handed in is the one of the request
unblind(signature, sigParams, r, rs) ==
    [signer |-> signature.signer,
     over |-> signature.known \cup Committed(signature.request.commitment),
     good |-> CASE sigParams.scheme = "PS" ->
                       \A i \in 1..Len(signature.request.commitments) :
                           LET c == signature.request.commitments[i]
                           IN  Has(rs, c.k) /\ c.v.openings[1] = GetValue(rs, c.k)
                [] sigParams.scheme = "BBS+" ->
                       signature.request.commitment.openings[1] = r
                [] OTHER -> TRUE]

\* revealedSig.verifyMessageObject(attributes, pk, sigParams, encoder)
verifyMessageObject(signature, attributes, publicKey) ==
    LET enc == encodeMessageObject(attributes)
    IN  [verified |-> /\ signature.good
                      /\ PublicKeyOf(signature.signer) = publicKey
                      /\ signature.over = {<<i - 1, enc.encodedValues[i]>> :
                                               i \in 1..Len(enc.names)}]

\* the attribute objects of the runs: one or two top-level names, nested or not
BlindAttributes ==
    ObjectsOver(TopKeys, {Leaf("v1")} \cup NestedObjects({Leaf("v1")})) \ {<<>>}

\* the attributes without the hidden ones
KnownAttributesOf(attributes, hiddenNames) ==
    unflatten(SelectSeq(flatten(attributes), LAMBDA e : e.k \notin Range(hiddenNames)))

\* the structure of an object: its names, the values redacted
StructureOf(attributes) ==
    LET flattened == flatten(attributes)
    IN  unflatten([i \in 1..Len(flattened) |-> Entry(flattened[i].k, Null)])

\* a request whose commitment was replaced on its way to the signer
Tampered(req) ==
    [req EXCEPT !.commitment.openings[Len(req.commitment.openings)] =
                    encodeMessage(UnknownName, Leaf("v2"))]

InitBlind ==
    /\ Scheme \in {"BBS", "BBS+", "PS"}
    /\ messages \in BlindAttributes
    /\ msgStructure = StructureOf(messages)
    /\ hiddenAttrNames \in DistinctSeqs(Candidates(messages), MaxNames) \ {<<>>}
    /\ knownAttributes = KnownAttributesOf(messages, hiddenAttrNames)
    /\ pc = "start"
    /\ IdleHolder
    /\ received = NoRequest
    /\ proof = NoResult
    /\ verified = NoResult
    /\ blindSignature = NoResult
    /\ revealedSig = NoResult
    /\ sigCheck = NoResult

\* the holder encodes the attributes and collects the hidden messages
HideMessages ==
    /\ pc = "start"
    /\ LET r == HiddenMsgsOf(messages, hiddenAttrNames)
       IN  /\ hiddenMsgs' = r.hiddenMsgs
           /\ pc' = IF r.threw THEN "aborted" ELSE "hidden"
    /\ UNCHANGED <<blinding, blindings, request, received, proof, verified,
                   blindSignature, revealedSig, sigCheck>>

\* [blinding, request] = BlindSignature.generateRequest(hiddenMsgs, sigParams, ...)
GenerateRequest ==
    /\ pc = "hidden"
    /\ LET r == generateRequest(hiddenMsgs, SigParams(Scheme))
       IN  /\ blinding' = r.blinding
           /\ blindings' = r.blindings
           /\ request' = r.request
    /\ pc' = "Requested"
    /\ UNCHANGED <<hiddenMsgs, received, proof, verified, blindSignature,
                   revealedSig, sigCheck>>

\* the holder builds the witnesses and the statements and generates the proof of
\* knowledge of the hidden messages
ProveKnowledge ==
    /\ pc = "Requested"
    /\ LET w == getWitnessForBlindSigRequest(SigParams(Scheme), hiddenMsgs, blinding, blindings)
           proverStatements == getStatementForBlindSigRequest(request, SigParams(Scheme))
           proofSpecProver == ProofSpec(proverStatements, "")
           r == IF w.threw THEN [threw |-> TRUE, ret |-> <<>>]
                ELSE generate(proofSpecProver, Witnesses(w.ret), NoNonce)
       IN  /\ proof' = [state |-> Outcome(r), proofSpec |-> proofSpecProver, ret |-> r.ret]
           /\ pc' = IF r.threw THEN "aborted" ELSE "Committed"
    /\ UNCHANGED <<holderVars, received, verified, blindSignature, revealedSig, sigCheck>>

\* the request and the proof reach the signer, the request as sent or replaced
Receive ==
    /\ pc = "Committed"
    /\ received = NoRequest
    /\ received' \in {request, Tampered(request)}
    /\ UNCHANGED <<pc, holderVars, proof, verified, blindSignature, revealedSig, sigCheck>>

\* the signer builds the statements from the request it received and verifies
\* the proof: checkResult(proof.verify(proofSpecVerifier))
VerifyKnowledge ==
    /\ pc = "Committed"
    /\ received # NoRequest
    /\ verified = NoResult
    /\ LET verifierStatements == getStatementForBlindSigRequest(received, SigParams(Scheme))
           proofSpecVerifier == ProofSpec(verifierStatements, "")
           r == verify(proof.ret, proofSpecVerifier, NoNonce, TRUE)
       IN  /\ verified' = [state |-> "returned", proofSpec |-> proofSpecVerifier, ret |-> r]
           /\ pc' = IF checkResult(r).threw THEN "aborted" ELSE pc
    /\ UNCHANGED <<holderVars, received, proof, blindSignature, revealedSig, sigCheck>>

\* BlindSignature.blindSignMessageObject(request, knownAttributes, sigSk, ...)
BlindSign ==
    /\ pc = "Committed"
    /\ verified # NoResult
    /\ LET r == blindSignMessageObject(received, knownAttributes, sk, msgStructure)
       IN  /\ blindSignature' = [state |-> Outcome(r), signature |-> r.signature]
           /\ pc' = IF r.threw THEN "aborted" ELSE "Signed"
    /\ UNCHANGED <<holderVars, received, proof, verified, revealedSig, sigCheck>>

\* the holder unblinds the blind signature
Unblind ==
    /\ pc = "Signed"
    /\ revealedSig' = [state |-> "returned",
                       ret |-> unblind(blindSignature.signature, SigParams(Scheme),
                                       blinding, blindings)]
    /\ pc' = "Unblinded"
    /\ UNCHANGED <<holderVars, received, proof, verified, blindSignature, sigCheck>>

\* checkResult(revealedSig.verifyMessageObject(attributes, sigPk, sigParams, encoder))
VerifyRevealedSig ==
    /\ pc = "Unblinded"
    /\ sigCheck = NoResult
    /\ LET r == verifyMessageObject(revealedSig.ret, messages, pk)
       IN  /\ sigCheck' = [state |-> "returned", ret |-> r]
           /\ pc' = IF checkResult(r).threw THEN "aborted" ELSE pc
    /\ UNCHANGED <<holderVars, received, proof, verified, blindSignature, revealedSig>>

othersBlind ==
    <<messages, msgStructure, revealedMsgNames, rau, erm, idxVars, credVars, accVars,
      valid, callVars, Scheme, hiddenAttrNames, knownAttributes>>

NextBlind ==
    \/ HideMessages /\ UNCHANGED othersBlind
    \/ GenerateRequest /\ UNCHANGED othersBlind
    \/ ProveKnowledge /\ UNCHANGED othersBlind
    \/ Receive /\ UNCHANGED othersBlind
    \/ VerifyKnowledge /\ UNCHANGED othersBlind
    \/ BlindSign /\ UNCHANGED othersBlind
    \/ Unblind /\ UNCHANGED othersBlind
    \/ VerifyRevealedSig /\ UNCHANGED othersBlind

InitBlindOnly ==
    /\ InitBlind
    /\ revealedMsgNames = <<>> /\ rau = NoResult /\ erm = NoResult /\ valid = NoResult
    /\ IdleIdx /\ IdleCred /\ IdleAcc /\ IdleCalls

SpecBlind == InitBlindOnly /\ [][NextBlind]_vars

\* the steps of a run, in their order
RunOrder == <<"start", "hidden", "Requested", "Committed", "Signed", "Unblinded">>

\* the proof of knowledge is one for the statements of the request the signer holds
KnowledgeVerified ==
    /\ verified # NoResult
    /\ verified.proofSpec =
           ProofSpec(getStatementForBlindSigRequest(received, SigParams(Scheme)), "")
    /\ verifyCompositeProofG1(proof.ret.value, verified.proofSpec.value, NoNonce).verified

\* C12: a run goes through Requested, Committed, Signed and Unblinded in this
\* order; the signer blind-signs only after it built the statements from the
\* request it received and the proof of knowledge verified against them; when the
\* proof does not verify the run is aborted and no blind signature is made
C12_Ordering ==
    /\ [](blindSignature # NoResult => KnowledgeVerified)
    /\ []((verified # NoResult /\ ~KnowledgeVerified) =>
              (pc = "aborted" /\ blindSignature = NoResult))
    /\ [][pc' # pc =>
              \/ pc' = "aborted"
              \/ \E k \in 1..(Len(RunOrder) - 1) : pc = RunOrder[k] /\ pc' = RunOrder[k + 1]]_vars

\* a PS run that came to Unblinded with two hidden messages
C12_Witness ==
    /\ pc = "Unblinded"
    /\ Scheme = "PS"
    /\ Len(hiddenMsgs) = 2
    /\ blindSignature.state = "returned"

\* C13: for every split of the attributes into hidden and known ones, the
\* signature the holder gets by unblinding the blind signature verifies under the
\* public key of the signer for the whole attributes object: the hidden and the
\* known messages, each at its index in the sorted flattened names
C13_RoundTrip ==
    /\ revealedSig # NoResult =>
          LET enc == encodeMessageObject(messages)
          IN  /\ revealedSig.ret.good
              /\ revealedSig.ret.over =
                     {<<i - 1, enc.encodedValues[i]>> : i \in 1..Len(enc.names)}
    /\ sigCheck # NoResult => (sigCheck.ret.verified /\ pc = "Unblinded")

\* a BBS+ signature over nested attributes, two of them hidden and not in the
\* order of their indices, one known, found good
C13_Witness ==
    /\ sigCheck # NoResult
    /\ sigCheck.ret.verified
    /\ Scheme = "BBS+"
    /\ Len(hiddenMsgs) = 2
    /\ hiddenMsgs # SortByKey(hiddenMsgs)
    /\ knownAttributes # <<>>
    /\ \E i \in 1..Len(messages) : messages[i].v.tag = "node"
====
